---- MODULE Spec2Model ----
(***************************************************************************)
(* A model of BongoDB: the statement evaluator (bongo-server/statement.rs), *)
(* the executor with its on-disc row file, hash index and ghost list       *)
(* (bongo-server/executor.rs) and the two-level lock discipline that the   *)
(* executor uses when statements of several connections run in parallel.   *)
(*                                                                         *)
(* These specifications share the module:                                  *)
(*   Spec      one client executing statements one after the other         *)
(*   SpecFlush one client, the meta files, teardown and restart            *)
(*   SpecEval  BinOp::apply, Expr::eval, the sort of SELECT and the row    *)
(*             encoding applied to bounded inputs                          *)
(*   SpecLock  two connections stepping through the lock protocol          *)
(*             (SpecLockFair: with fair scheduling)                        *)
(*   SpecWire  the frames of the connections of the Webserver              *)
(*   SpecSql   Executor::new and execute of SQL texts                      *)
(*   SpecPool  the ThreadPool of archive/thread_pool.rs                    *)
(*             (SpecPoolFair: with fair scheduling)                        *)
(*   SpecClient the client's query_raw reading responses                   *)
(***************************************************************************)
EXTENDS Integers, Sequences, FiniteSets, TLC

VARIABLES
    tables,     \* Executor.tables: table name -> TableMetaData
    disc,       \* db_root: table name -> rows of <name>/data.bongo, slot by slot
    poisoned,   \* tables whose inner RwLock was poisoned by a panic
    result,     \* the BongoResult of the last statement
    allOk,      \* TRUE as long as every statement so far returned Ok
    before,     \* ghost list and file length the last statement started from
    meta,       \* db_root: table name -> content of <name>/meta.bongo, if any
    open,       \* TRUE while the Executor exists
    root,       \* TRUE while the directory db_root exists
    evalIn,     \* SpecEval: the operands given to the evaluator
    evalOut,    \* SpecEval: what the evaluator returned
    pc,         \* SpecLock: position of each connection's statement
    job,        \* SpecLock: the statement each connection executes
    outer,      \* SpecLock: state of Executor.tables' RwLock
    inner,      \* SpecLock: state of each table's RwLock
    flag,       \* SpecLock: borrow flag of each table's RefCell
    seen,       \* SpecLock: borrow flag value a connection has read
    live,       \* SpecLock: keys of the table map
    dirs,       \* SpecLock: table directories under db_root
    auto_flush, \* SpecLock: Executor.auto_flush
    par,        \* SpecLock: kinds of parallelism observed so far
    inbox,      \* SpecWire: per connection, bytes written and not yet read
    eof,        \* SpecWire: per connection, the client has closed it
    wpc,        \* SpecWire: per connection, position of its task in its loop
    size,       \* SpecWire: per connection, the length the last header announced
    reqs,       \* SpecWire: per connection, the payloads read so far, in order
    outbox,     \* SpecWire: per connection, what each write_all has written
    sends,      \* SpecWire: how often the clients have written
    channel,    \* SpecPool: the messages sent and not yet received, in order
    mutex,      \* SpecPool: the Mutex around the Receiver
    worker,     \* SpecPool: per worker thread, its position and its job
    pool,       \* SpecPool: the thread that owns the ThreadPool
    taken,      \* SpecPool: the jobs received so far and who received them
    finished,   \* SpecPool: the jobs whose function has returned
    stream,     \* SpecClient: bytes the server has written, not yet read
    query,      \* SpecClient: the locals of the client's query_raw
    responses,  \* SpecClient: the payloads the server has written, in order
    returned    \* SpecClient: the bytes query_raw has returned, in order

storeVars == <<tables, disc, poisoned, result, allOk, before, meta, open, root>>
evalVars  == <<evalIn, evalOut>>
lockVars  == <<pc, job, outer, inner, flag, seen, live, dirs, auto_flush, par>>
wireVars  == <<inbox, eof, wpc, size, reqs, outbox, sends>>
poolVars  == <<channel, mutex, worker, pool, taken, finished>>
clientVars == <<stream, query, responses, returned>>
vars      == <<tables, disc, poisoned, result, allOk, before, meta, open, root,
               evalIn, evalOut,
               pc, job, outer, inner, flag, seen, live, dirs, auto_flush, par,
               inbox, eof, wpc, size, reqs, outbox, sends,
               channel, mutex, worker, pool, taken, finished,
               stream, query, responses, returned>>

----------------------------------------------------------------------------
(* Bounds of the model *)

MaxSlots  == 2      \* the data file holds at most this many row slots
MaxInsert == 2      \* an INSERT carries at most this many rows
FlagCap   == 2      \* largest magnitude a RefCell borrow flag is followed to
MaxSends  == 3      \* the clients write at most this often, all connections together

----------------------------------------------------------------------------
(* bongo-core/types.rs: literals and data types *)

IntLit(n)     == [t |-> "Int",     i |-> n, s |-> <<>>]
BoolLit(b)    == [t |-> "Bool",    i |-> IF b THEN 1 ELSE 0, s |-> <<>>]
VarcharLit(x) == [t |-> "Varchar", i |-> 0, s |-> x]
Null          == [t |-> "Null",    i |-> 0, s |-> <<>>]

DInt        == [t |-> "Int",     cap |-> 0]
DBool       == [t |-> "Bool",    cap |-> 0]
DVarchar(n) == [t |-> "Varchar", cap |-> n]

ColumnDef(n, d) == [name |-> n, data_type |-> d]

\* BongoDataType::can_store
DataTypeCanStore(d, lit) ==
    CASE lit.t = "Int"     -> d.t = "Int"
      [] lit.t = "Bool"    -> d.t = "Bool"
      [] lit.t = "Varchar" -> d.t = "Varchar" /\ Len(lit.s) <= d.cap
      [] OTHER             -> TRUE

\* BongoDataType::disc_size
disc_size(d) ==
    CASE d.t = "Int"  -> 8 + 1
      [] d.t = "Bool" -> 1 + 1
      [] OTHER        -> d.cap + 1 + 1

get_col_names(cols) == [j \in 1..Len(cols) |-> cols[j].name]

\* position of the first element of a sequence equal to x, 0 when absent
Position(seq, x) ==
    IF \E j \in 1..Len(seq) : seq[j] = x
    THEN CHOOSE j \in 1..Len(seq) : seq[j] = x /\ \A h \in 1..(j-1) : seq[h] # x
    ELSE 0

Contains(seq, x) == \E j \in 1..Len(seq) : seq[j] = x

RECURSIVE SeqLess(_, _)
\* str < str of Rust: lexicographic on the bytes
SeqLess(a, b) ==
    IF b = <<>> THEN FALSE
    ELSE IF a = <<>> THEN TRUE
    ELSE IF a[1] # b[1] THEN a[1] < b[1]
    ELSE SeqLess(Tail(a), Tail(b))

\* impl PartialOrd for BongoLiteral: "Less", "Equal", "Greater" or "None"
partial_cmp(l, r) ==
    IF l.t # r.t THEN "None"
    ELSE CASE l.t = "Int"  -> IF l.i < r.i THEN "Less" ELSE IF l.i = r.i THEN "Equal" ELSE "Greater"
           [] l.t = "Bool" -> IF l.i < r.i THEN "Less" ELSE IF l.i = r.i THEN "Equal" ELSE "Greater"
           [] l.t = "Varchar" -> IF SeqLess(l.s, r.s) THEN "Less"
                                 ELSE IF l.s = r.s THEN "Equal" ELSE "Greater"
           [] OTHER -> "Equal"

----------------------------------------------------------------------------
(* bongo-server/statement.rs: expressions *)

OkLit(l)  == [ok |-> TRUE,  lit |-> l,    err |-> "none"]
ErrLit(e) == [ok |-> FALSE, lit |-> Null, err |-> e]

CompareOps == {"Lt", "Gt", "GtEq", "LtEq", "Eq", "NotEq"}
BinOps     == CompareOps \cup {"And", "Or"}

\* BinOp::apply
Apply(op, left0, right0) ==
    LET left  == IF left0.t  = "Null" THEN BoolLit(FALSE) ELSE left0
        right == IF right0.t = "Null" THEN BoolLit(FALSE) ELSE right0
        c     == partial_cmp(left, right)
    IN  IF left.t # right.t THEN ErrLit("SqlRuntimeError")
        ELSE CASE op = "Lt"    -> OkLit(BoolLit(c = "Less"))
               [] op = "Gt"    -> OkLit(BoolLit(c = "Greater"))
               [] op = "GtEq"  -> OkLit(BoolLit(c \in {"Greater", "Equal"}))
               [] op = "LtEq"  -> OkLit(BoolLit(c \in {"Less", "Equal"}))
               [] op = "Eq"    -> OkLit(BoolLit(left = right))
               [] op = "NotEq" -> OkLit(BoolLit(left # right))
               [] OTHER ->
                    IF left.t = "Bool"
                    THEN IF op = "And" THEN OkLit(BoolLit(left.i = 1 /\ right.i = 1))
                         ELSE OkLit(BoolLit(left.i = 1 \/ right.i = 1))
                    ELSE ErrLit("SqlRuntimeError")

Value(l)         == [kind |-> "Value", lit |-> l]
Identifier(n)    == [kind |-> "Identifier", name |-> n]
BinaryExpr(l, o, r) == [kind |-> "BinaryExpr", left |-> l, op |-> o, right |-> r]
NoExpr           == [kind |-> "None"]

RECURSIVE eval_helper(_, _, _)
\* Expr::eval_helper
eval_helper(e, row, cols) ==
    CASE e.kind = "BinaryExpr" ->
            LET left_val == eval_helper(e.left, row, cols)
            IN  IF ~left_val.ok THEN left_val
                ELSE LET right_val == eval_helper(e.right, row, cols)
                     IN  IF ~right_val.ok THEN right_val
                         ELSE Apply(e.op, left_val.lit, right_val.lit)
      [] e.kind = "Identifier" ->
            LET pos == Position(cols, e.name)
            IN  IF pos = 0 THEN ErrLit("SqlRuntimeError") ELSE OkLit(row[pos])
      [] OTHER -> OkLit(e.lit)

\* BongoLiteral::as_bool
as_bool(lit) ==
    IF lit.t = "Bool" THEN [ok |-> TRUE, b |-> lit.i = 1, err |-> "none"]
    ELSE [ok |-> FALSE, b |-> FALSE, err |-> "SqlRuntimeError"]

\* Expr::eval
Eval(e, row, cols) ==
    IF Len(row) # Len(cols) THEN [ok |-> FALSE, b |-> FALSE, err |-> "InternalError"]
    ELSE LET v == eval_helper(e, row, cols)
         IN  IF ~v.ok THEN [ok |-> FALSE, b |-> FALSE, err |-> v.err]
             ELSE as_bool(v.lit)

----------------------------------------------------------------------------
(* bongo-server/executor.rs: TableMetaData, the index and the probe planner *)

\* BongoResult: Ok(None), Ok(Some(rows)) or Err(error); a panic returns
\* nothing.  stmt names the statement the result belongs to.
OkNone      == [kind |-> "Ok",    err |-> "none",  some |-> FALSE, rows |-> <<>>, stmt |-> ""]
OkRows(r)   == [kind |-> "Ok",    err |-> "none",  some |-> TRUE,  rows |-> r,    stmt |-> ""]
Err(e)      == [kind |-> "Err",   err |-> e,       some |-> FALSE, rows |-> <<>>, stmt |-> ""]
Panic       == [kind |-> "Panic", err |-> "panic", some |-> FALSE, rows |-> <<>>, stmt |-> ""]
NoResult    == [kind |-> "None",  err |-> "none",  some |-> FALSE, rows |-> <<>>, stmt |-> ""]

\* what is remembered of the last statement besides its result: bad, the
\* position of the first unstorable row of an INSERT; one, the INSERT stored
\* a single row under a key the index did not hold, key that key and rows
\* what SELECT * returned before it; undo, the DELETE removed that key
\* again or the DROP TABLE the table made; made, the table a CREATE TABLE
\* added, was and dirs the table map
\* and the entries of db_root before it (was also: the table map a teardown
\* found); flushes, how often the statement called flush, and failed,
\* whether that call returned an error; names, the tables a DROP TABLE named
NoNote      == [bad |-> 0, one |-> FALSE, key |-> Null, rows |-> <<>>, undo |-> FALSE,
                made |-> "", was |-> <<>>, dirs |-> {}, flushes |-> 0, failed |-> FALSE,
                names |-> <<>>]
NoSnapshot  == [ghosts |-> <<>>, len |-> 0, note |-> NoNote]

EmptyMap == [k \in {} |-> <<>>]
MapPut(m, k, v) == [x \in (DOMAIN m) \cup {k} |-> IF x = k THEN v ELSE m[x]]
MapRemove(m, k) == [x \in (DOMAIN m) \ {k} |-> m[x]]

RemoveAt(seq, p) == [j \in 1..(Len(seq) - 1) |-> IF j < p THEN seq[j] ELSE seq[j + 1]]

RECURSIVE Concat(_)
Concat(ss) == IF ss = <<>> THEN <<>> ELSE Head(ss) \o Concat(Tail(ss))

\* TableMetaData::can_store
can_store(table, row) ==
    /\ Len(table.cols) = Len(row)
    /\ \A j \in 1..Len(row) : DataTypeCanStore(table.cols[j].data_type, row[j])

\* impl TryFrom<(&str, &Expr)> for TrivialIdxExpr
TrivialIdxExpr(idx_col, expr) ==
    IF expr.kind = "BinaryExpr" /\ expr.op \in {"Eq", "NotEq"}
    THEN CASE expr.left.kind = "Identifier" /\ expr.right.kind = "Value"
                /\ expr.left.name = idx_col
                -> [ok |-> TRUE, op |-> expr.op, val |-> expr.right.lit]
           [] expr.left.kind = "Value" /\ expr.right.kind = "Identifier"
                /\ expr.right.name = idx_col
                -> [ok |-> TRUE, op |-> expr.op, val |-> expr.left.lit]
           [] OTHER -> [ok |-> FALSE, op |-> "Eq", val |-> Null]
    ELSE [ok |-> FALSE, op |-> "Eq", val |-> Null]

\* DiscIndexer::idx_to_indices; a HashMap is iterated in an arbitrary order
\* of its keys, here the order in which the keys appear in order
idx_to_indices(map, order) ==
    Concat([j \in 1..Len(order) |->
              IF order[j] \in DOMAIN map THEN map[order[j]] ELSE <<>>])

\* DiscIndexer::from_opt_expr
from_opt_expr(idx, opt_expr, order) ==
    IF opt_expr.kind = "None"
    THEN [indices |-> idx_to_indices(idx.map, order), expr |-> NoExpr]
    ELSE LET idx_expr == TrivialIdxExpr(idx.col, opt_expr)
         IN  IF idx_expr.ok
             THEN IF idx_expr.op = "Eq"
                  THEN IF idx_expr.val \in DOMAIN idx.map
                       THEN [indices |-> idx.map[idx_expr.val], expr |-> NoExpr]
                       ELSE [indices |-> <<>>, expr |-> NoExpr]
                  ELSE [indices |-> idx_to_indices(MapRemove(idx.map, idx_expr.val), order),
                        expr |-> NoExpr]
             ELSE [indices |-> idx_to_indices(idx.map, order), expr |-> opt_expr]

\* Row::as_disc_bytes succeeds exactly on the rows the schema can hold; the
\* data file is kept slot by slot as the rows that from_disc_bytes returns
RowStorable(row, cols) ==
    /\ Len(row) = Len(cols)
    /\ \A j \in 1..Len(row) : DataTypeCanStore(cols[j].data_type, row[j])

\* file.seek(SeekFrom::Start(i)) followed by read_exact of row_size bytes
ReadRow(data, i, row_size) ==
    IF i % row_size = 0 /\ (i \div row_size) + 1 <= Len(data)
    THEN [ok |-> TRUE, row |-> data[(i \div row_size) + 1]]
    ELSE [ok |-> FALSE, row |-> <<>>]

WriteRowAtEnd(data, i, row_size, row) == Append(data, row)
\* seek(SeekFrom::Start(i)) followed by write_all of one row
WriteRow(data, i, row_size, row) ==
    IF (i \div row_size) + 1 <= Len(data)
    THEN [data EXCEPT ![(i \div row_size) + 1] = row]
    ELSE Append(data, row)

RECURSIVE apply_assignments(_, _, _)
\* impl ApplyAssignments for Row (the columns were checked by the caller)
apply_assignments(row, assignments, cols) ==
    IF assignments = <<>> THEN row
    ELSE LET a == Head(assignments)
             index == Position(cols, a.col_name)
         IN  apply_assignments([row EXCEPT ![index] = a.val], Tail(assignments), cols)

Assignment(c, v) == [col_name |-> c, val |-> v]
AssignedCols(assignments) == [j \in 1..Len(assignments) |-> assignments[j].col_name]

----------------------------------------------------------------------------
(* bongo-server/executor.rs: the statement handlers.  Each handler takes   *)
(* the table's metadata and the rows of its data file and returns both as  *)
(* the statement leaves them, with the statement's result.                 *)

Outcome(tbl, data, res) == [tbl |-> tbl, data |-> data, res |-> res]

\* Executor::get_table_dir_if_exists followed by the acquisition of the
\* table's lock, which fails once a panic has poisoned it
Locate(name) ==
    IF name \notin DOMAIN tables THEN Err("SqlRuntimeError")
    ELSE IF name \notin DOMAIN disc THEN Err("InternalError")
    ELSE IF name \in poisoned THEN Err("InternalError")
    ELSE OkNone

PopGhostFront(ghosts) == [loc |-> Head(ghosts), rest |-> Tail(ghosts)]
\* table.ghosts.pop() on a ghost list that is not empty
PopGhost(ghosts) ==
    [loc |-> ghosts[Len(ghosts)], rest |-> SubSeq(ghosts, 1, Len(ghosts) - 1)]

RECURSIVE InsertRows(_, _, _)
\* Executor::insert, the loop over insert.rows
InsertRows(tbl, data, rows) ==
    IF rows = <<>> THEN Outcome(tbl, data, OkNone)
    ELSE LET row      == Head(rows)
             hasGhost == tbl.ghosts # <<>>
             item_pos == IF hasGhost THEN PopGhost(tbl.ghosts).loc
                         ELSE Len(data) * tbl.row_size
             ghosts1  == IF hasGhost THEN PopGhost(tbl.ghosts).rest
                         ELSE tbl.ghosts
             data1    == WriteRow(data, item_pos, tbl.row_size, row)
             map1     == IF row[1] \in DOMAIN tbl.idx.map
                         THEN [tbl.idx.map EXCEPT ![row[1]] = Append(@, item_pos)]
                         ELSE MapPut(tbl.idx.map, row[1], <<item_pos>>)
         IN  IF ~RowStorable(row, tbl.cols)
             THEN Outcome([tbl EXCEPT !.ghosts = ghosts1], data, Err("InternalError"))
             ELSE InsertRows([tbl EXCEPT !.ghosts = ghosts1, !.idx.map = map1],
                             data1, Tail(rows))

insertUnchecked(tbl, data, ins_cols, rows) ==
    IF get_col_names(tbl.cols) # ins_cols
    THEN Outcome(tbl, data, Err("SqlRuntimeError"))
    ELSE InsertRows(tbl, data, rows)

\* Executor::insert
insert(tbl, data, ins_cols, rows) ==
    IF get_col_names(tbl.cols) # ins_cols
    THEN Outcome(tbl, data, Err("SqlRuntimeError"))
    ELSE IF \E j \in 1..Len(rows) : ~can_store(tbl, rows[j])
    THEN Outcome(tbl, data, Err("SqlRuntimeError"))
    ELSE LET o == InsertRows(tbl, data, rows)
         IN  IF o.res.kind # "Ok" THEN o
             ELSE Outcome([o.tbl EXCEPT !.row_count = @ + Len(rows)], o.data, OkNone)

\* Executor::update, "remove old row index": the entry of old_idx_val loses
\* one offset, chosen by Vec::remove(i as usize)
RemoveOldIndex(map, old_idx_val, i) ==
    IF old_idx_val \notin DOMAIN map
    THEN [res |-> Err("InternalError"), map |-> map]
    ELSE IF Len(map[old_idx_val]) = 1
    THEN [res |-> OkNone, map |-> MapRemove(map, old_idx_val)]
    ELSE IF i >= Len(map[old_idx_val])
    THEN [res |-> Panic, map |-> map]
    ELSE [res |-> OkNone,
          map |-> [map EXCEPT ![old_idx_val] = RemoveAt(@, i + 1)]]

\* Executor::update, "insert new row index"
InsertNewIndex(map, new_val, i) ==
    IF new_val \in DOMAIN map
    THEN [map EXCEPT ![new_val] = Append(@, i)]
    ELSE MapPut(map, new_val, <<i>>)

RECURSIVE UpdateRows(_, _, _, _, _)
\* Executor::update, the loop over indexer.indices
UpdateRows(tbl, data, indices, expr, assignments) ==
    IF indices = <<>> THEN Outcome(tbl, data, OkNone)
    ELSE LET i         == Head(indices)
             col_names == get_col_names(tbl.cols)
             rd        == ReadRow(data, i, tbl.row_size)
             ev        == IF expr.kind = "None"
                          THEN [ok |-> TRUE, b |-> TRUE, err |-> "none"]
                          ELSE Eval(expr, rd.row, col_names)
             row       == apply_assignments(rd.row, assignments, col_names)
             data1     == WriteRow(data, i, tbl.row_size, row)
             rem       == RemoveOldIndex(tbl.idx.map, rd.row[1], i)
             map1      == InsertNewIndex(rem.map, row[1], i)
         IN  IF ~rd.ok THEN Outcome(tbl, data, Err("ReadFileError"))
             ELSE IF ~ev.ok THEN Outcome(tbl, data, Err(ev.err))
             ELSE IF ~ev.b
             THEN UpdateRows(tbl, data, Tail(indices), expr, assignments)
             ELSE IF ~RowStorable(row, tbl.cols)
             THEN Outcome(tbl, data, Err("InternalError"))
             ELSE IF ~Contains(AssignedCols(assignments), tbl.idx.col)
             THEN UpdateRows(tbl, data1, Tail(indices), expr, assignments)
             ELSE IF rem.res.kind # "Ok"
             THEN Outcome(tbl, data1, rem.res)
             ELSE UpdateRows([tbl EXCEPT !.idx.map = map1], data1,
                             Tail(indices), expr, assignments)

\* Executor::update
update(tbl, data, assignments, condition, order) ==
    IF \E j \in 1..Len(assignments) :
            ~Contains(get_col_names(tbl.cols), assignments[j].col_name)
    THEN Outcome(tbl, data, Err("SqlRuntimeError"))
    ELSE LET indexer == from_opt_expr(tbl.idx, condition, order)
         IN  UpdateRows(tbl, data, indexer.indices, indexer.expr, assignments)

RECURSIVE DeleteCandidates(_, _, _, _)
\* Executor::delete, the loop that tests every candidate row
DeleteCandidates(tbl, data, indices, expr) ==
    IF indices = <<>> THEN [res |-> OkNone, indices |-> <<>>]
    ELSE LET i    == Head(indices)
             rd   == ReadRow(data, i, tbl.row_size)
             ev   == Eval(expr, rd.row, get_col_names(tbl.cols))
             rest == DeleteCandidates(tbl, data, Tail(indices), expr)
         IN  IF ~rd.ok THEN [res |-> Err("ReadFileError"), indices |-> <<>>]
             ELSE IF ~ev.ok THEN [res |-> Err(ev.err), indices |-> <<>>]
             ELSE IF rest.res.kind # "Ok" THEN rest
             ELSE [res |-> OkNone,
                   indices |-> IF ev.b THEN <<i>> \o rest.indices ELSE rest.indices]

\* ids.into_iter().filter(|i| !indices_to_delete.contains(i)).collect()
FilterIds(ids, indices_to_delete) ==
    SelectSeq(ids, LAMBDA x : ~Contains(indices_to_delete, x))

deleteInPlace(tbl, data, condition, order) ==
    LET indexer == from_opt_expr(tbl.idx, condition, order)
        cand    == IF indexer.expr.kind = "None"
                   THEN [res |-> OkNone, indices |-> indexer.indices]
                   ELSE DeleteCandidates(tbl, data, indexer.indices, indexer.expr)
        gone    == IF cand.res.kind = "Ok" THEN cand.indices ELSE indexer.indices
        keep    == {k \in DOMAIN tbl.idx.map : FilterIds(tbl.idx.map[k], gone) # <<>>}
        map1    == [k \in keep |-> FilterIds(tbl.idx.map[k], gone)]
    IN  Outcome([tbl EXCEPT !.idx.map = map1,
                            !.row_count = IF Len(gone) > @ THEN 0 ELSE @ - Len(gone),
                            !.ghosts = @ \o gone],
                data, cand.res)

\* Executor::delete
delete(tbl, data, condition, order) ==
    LET indexer == from_opt_expr(tbl.idx, condition, order)
        cand    == IF indexer.expr.kind = "None"
                   THEN [res |-> OkNone, indices |-> indexer.indices]
                   ELSE DeleteCandidates(tbl, data, indexer.indices, indexer.expr)
        indices_to_delete == cand.indices
        keep    == {k \in DOMAIN tbl.idx.map :
                        FilterIds(tbl.idx.map[k], indices_to_delete) # <<>>}
        map1    == [k \in keep |-> FilterIds(tbl.idx.map[k], indices_to_delete)]
    IN  IF cand.res.kind # "Ok" THEN Outcome(tbl, data, cand.res)
        ELSE IF Len(indices_to_delete) > tbl.row_count
        THEN Outcome([tbl EXCEPT !.idx.map = map1], data, Panic)
        ELSE Outcome([tbl EXCEPT !.idx.map = map1,
                                 !.row_count = @ - Len(indices_to_delete),
                                 !.ghosts = @ \o indices_to_delete],
                     data, OkNone)

ColumnName(n) == [wild |-> FALSE, name |-> n]
Wildcard      == [wild |-> TRUE,  name |-> ""]
NoOrder       == [kind |-> "None", col |-> ""]
Asc(c)        == [kind |-> "Asc",  col |-> c]
Desc(c)       == [kind |-> "Desc", col |-> c]

RECURSIVE SelectedColIndices(_, _, _)
\* Executor::select, "get indices of the selected columns"
SelectedColIndices(items, cols, acc) ==
    IF items = <<>> THEN [ok |-> TRUE, idxs |-> acc]
    ELSE LET item == Head(items)
             loc  == Position(get_col_names(cols), item.name)
         IN  IF item.wild
             THEN SelectedColIndices(Tail(items), cols, [j \in 1..Len(cols) |-> j])
             ELSE IF loc = 0 THEN [ok |-> FALSE, idxs |-> <<>>]
             ELSE SelectedColIndices(Tail(items), cols, Append(acc, loc))

RECURSIVE SelectRows(_, _, _, _)
\* Executor::select, the loop over indexer.indices
SelectRows(tbl, data, indices, expr) ==
    IF indices = <<>> THEN [res |-> OkNone, rows |-> <<>>]
    ELSE LET rd   == ReadRow(data, Head(indices), tbl.row_size)
             ev   == IF expr.kind = "None"
                     THEN [ok |-> TRUE, b |-> TRUE, err |-> "none"]
                     ELSE Eval(expr, rd.row, get_col_names(tbl.cols))
             rest == SelectRows(tbl, data, Tail(indices), expr)
         IN  IF ~rd.ok THEN [res |-> Err("ReadFileError"), rows |-> <<>>]
             ELSE IF ~ev.ok THEN [res |-> Err(ev.err), rows |-> <<>>]
             ELSE IF rest.res.kind # "Ok" THEN rest
             ELSE [res |-> OkNone,
                   rows |-> IF ev.b THEN <<rd.row>> \o rest.rows ELSE rest.rows]

\* the comparator handed to rows.sort_by
IsLess(r1, r2, col_idx, asc) ==
    IF asc THEN partial_cmp(r1[col_idx], r2[col_idx]) = "Less"
    ELSE partial_cmp(r2[col_idx], r1[col_idx]) = "Less"

\* slice::sort_by on a short slice: insert_head moves the first element
\* behind the run of elements that compare less than it
InsertHead(v, col_idx, asc) ==
    IF Len(v) >= 2 /\ IsLess(v[2], v[1], col_idx, asc)
    THEN LET last == CHOOSE k \in 2..Len(v) :
                        /\ \A j \in 2..k : IsLess(v[j], v[1], col_idx, asc)
                        /\ (k = Len(v) \/ ~IsLess(v[k + 1], v[1], col_idx, asc))
         IN  SubSeq(v, 2, last) \o <<v[1]>> \o SubSeq(v, last + 1, Len(v))
    ELSE v

RECURSIVE SortBy(_, _, _)
\* slice::sort_by (stable): insertion from the right end
SortBy(v, col_idx, asc) ==
    IF Len(v) <= 1 THEN v
    ELSE InsertHead(<<v[1]>> \o SortBy(Tail(v), col_idx, asc), col_idx, asc)

\* Executor::select, "remove non-selected indices"
Project(row, selected_col_indices) ==
    SelectSeq([j \in 1..Len(row) |-> <<j, row[j]>>],
              LAMBDA p : Contains(selected_col_indices, p[1]))

\* Executor::select
select(tbl, data, sel_cols, condition, order_by, order) ==
    LET sel     == SelectedColIndices(sel_cols, tbl.cols, <<>>)
        indexer == from_opt_expr(tbl.idx, condition, order)
        got     == SelectRows(tbl, data, indexer.indices, indexer.expr)
        col_idx == Position(get_col_names(tbl.cols), order_by.col)
        sorted  == IF order_by.kind = "None" THEN got.rows
                   ELSE SortBy(got.rows, col_idx, order_by.kind = "Asc")
        proj    == [r \in 1..Len(sorted) |->
                      LET kept == Project(sorted[r], sel.idxs)
                      IN  [j \in 1..Len(kept) |-> kept[j][2]]]
    IN  IF ~sel.ok THEN Outcome(tbl, data, Err("SqlRuntimeError"))
        ELSE IF got.res.kind # "Ok" THEN Outcome(tbl, data, got.res)
        ELSE IF order_by.kind # "None" /\ col_idx = 0
        THEN Outcome(tbl, data, Err("SqlRuntimeError"))
        ELSE Outcome(tbl, data, OkRows(proj))

RECURSIVE SumSizes(_)
SumSizes(cols) ==
    IF cols = <<>> THEN 0 ELSE disc_size(Head(cols).data_type) + SumSizes(Tail(cols))

\* Executor::create_table, the TableMetaData of a new table
NewTable(cols) ==
    [cols      |-> cols,
     idx       |-> [col |-> cols[1].name, map |-> EmptyMap],
     ghosts    |-> <<>>,
     row_size  |-> SumSizes(cols),
     row_count |-> 0]

----------------------------------------------------------------------------
(* The statements one client sends: small sets that exercise every branch  *)

TableNames  == {"t"}
ExampleCols == <<ColumnDef("k", DInt), ColumnDef("b", DBool)>>
Schemas     == {ExampleCols}

KeyLits   == {IntLit(1), IntLit(2)}
OtherLits == {BoolLit(TRUE), Null}
GoodRows  == {<<k, b>> : k \in KeyLits, b \in OtherLits}
BadRows   == {<<BoolLit(TRUE), Null>>}

RowLists == UNION {[1..n -> GoodRows] : n \in 1..MaxInsert}
              \cup {<<g, b>> : g \in GoodRows, b \in BadRows}
ColLists == {<<"k", "b">>, <<"b", "k">>}

Conditions ==
    { NoExpr,
      BinaryExpr(Identifier("k"), "Eq", Value(IntLit(1))),
      BinaryExpr(Value(IntLit(1)), "NotEq", Identifier("k")),
      Identifier("b"),
      BinaryExpr(Identifier("b"), "Eq", Value(BoolLit(TRUE))) }

AssignmentLists ==
    { <<Assignment("k", IntLit(1))>>,
      <<Assignment("k", IntLit(2))>>,
      <<Assignment("b", Null)>>,
      <<Assignment("b", BoolLit(TRUE))>>,
      <<Assignment("k", BoolLit(TRUE))>>,
      <<Assignment("zz", IntLit(1))>> }

SelectLists == { <<Wildcard>>, <<ColumnName("b")>>, <<ColumnName("zz")>>,
                 <<ColumnName("b"), ColumnName("k")>> }
Orders      == { NoOrder, Desc("k") }

\* every order in which a HashMap may hand out the keys
KeyOrders ==
    LET keys == KeyLits
    IN  {f \in [1..Cardinality(keys) -> keys] :
            \A a, b \in 1..Cardinality(keys) : a # b => f[a] # f[b]}

----------------------------------------------------------------------------
(* Spec: one client, one statement after the other *)

\* no connection has been accepted
NoWire ==
    /\ inbox = <<>> /\ eof = <<>> /\ wpc = <<>> /\ size = <<>>
    /\ reqs = <<>> /\ outbox = <<>> /\ sends = 0

\* no ThreadPool has been created
NoPool ==
    /\ channel = <<>> /\ mutex = <<>> /\ worker = <<>> /\ pool = <<>>
    /\ taken = <<>> /\ finished = {}

\* no client has connected
NoClient ==
    /\ stream = <<>> /\ query = <<>> /\ responses = <<>> /\ returned = <<>>

Init ==
    /\ tables = [n \in {} |-> 0]
    /\ disc = [n \in {} |-> 0]
    /\ poisoned = {}
    /\ result = NoResult
    /\ allOk = TRUE
    /\ before = NoSnapshot
    /\ meta = [n \in {} |-> 0]
    /\ open = TRUE
    /\ root = TRUE
    /\ NoWire /\ NoPool /\ NoClient
    /\ evalIn = <<>>
    /\ evalOut = <<>>
    /\ pc = <<>> /\ job = <<>> /\ outer = <<>> /\ inner = <<>>
    /\ flag = <<>> /\ seen = <<>> /\ live = {} /\ dirs = {}
    /\ auto_flush = FALSE /\ par = {}

\* the ghost list and the number of row slots of table name
Snapshot(name) ==
    IF name \in DOMAIN tables /\ name \in DOMAIN disc
    THEN [ghosts |-> tables[name].ghosts, len |-> Len(disc[name].data), note |-> NoNote]
    ELSE NoSnapshot

\* the position in rows of the first row the table cannot store, 0 if none
FirstUnstorable(tbl, rows) ==
    IF \A j \in 1..Len(rows) : can_store(tbl, rows[j]) THEN 0
    ELSE CHOOSE j \in 1..Len(rows) :
            /\ ~can_store(tbl, rows[j])
            /\ \A h \in 1..(j - 1) : can_store(tbl, rows[h])

AllNames    == {"t", "u"}
TableOrders == {<<"t", "u">>, <<"u", "t">>}

MustFlushDataOnly(kind) == auto_flush /\ kind \in {"Insert", "Update", "Delete"}
\* Executor::execute, must_flush
MustFlush(kind) == auto_flush /\ kind \notin {"Select", "Flush"}

\* bincode::serialize of (name, table): the fields in their order, the index
\* map as the sequence of its entries in the order the HashMap hands them out
serialize(name, tbl, order) ==
    [name      |-> name,
     cols      |-> tbl.cols,
     idx_col   |-> tbl.idx.col,
     entries   |-> LET keys == SelectSeq(order, LAMBDA k : k \in DOMAIN tbl.idx.map)
                   IN  [j \in 1..Len(keys) |-> <<keys[j], tbl.idx.map[keys[j]]>>],
     ghosts    |-> tbl.ghosts,
     row_size  |-> tbl.row_size,
     row_count |-> tbl.row_count]

\* bincode::deserialize of the content of a meta.bongo
deserialize(bytes) ==
    [name |-> bytes.name,
     tbl  |-> [cols      |-> bytes.cols,
               idx       |-> [col |-> bytes.idx_col,
                              map |-> [k \in {bytes.entries[j][1] :
                                                j \in 1..Len(bytes.entries)} |->
                                         LET j == CHOOSE h \in 1..Len(bytes.entries) :
                                                     bytes.entries[h][1] = k
                                         IN  bytes.entries[j][2]]],
               ghosts    |-> bytes.ghosts,
               row_size  |-> bytes.row_size,
               row_count |-> bytes.row_count]]

RECURSIVE flush(_, _, _, _, _, _)
\* Executor::flush over the tables in the order torder; serializing a table
\* whose lock is poisoned fails
flush(tbls, pois, found, m, torder, korder) ==
    IF torder = <<>> THEN [res |-> OkNone, meta |-> m]
    ELSE LET name == Head(torder)
         IN  IF name \notin DOMAIN tbls THEN flush(tbls, pois, found, m, Tail(torder), korder)
             ELSE IF name \in pois THEN [res |-> Err("InternalError"), meta |-> m]
             ELSE IF name \notin found THEN [res |-> Err("InternalError"), meta |-> m]
             ELSE flush(tbls, pois, found,
                        MapPut(m, name, serialize(name, tbls[name], korder)),
                        Tail(torder), korder)

\* Executor::execute after the handler has returned res and left tables',
\* disc' and poisoned': the trailing flush, whose error replaces res; the
\* meta file of a table directory that is gone is gone with it
Reply(stmt, res, snap) ==
    LET kept == [n \in (DOMAIN meta) \cap (DOMAIN disc') |-> meta[n]]
    IN  IF MustFlush(stmt) /\ res.kind # "Panic"
        THEN \E torder \in TableOrders, korder \in KeyOrders :
                LET f == flush(tables', poisoned', DOMAIN disc', kept, torder, korder)
                    r == IF f.res.kind = "Err" THEN f.res ELSE res
                IN  /\ meta' = f.meta
                    /\ result' = [r EXCEPT !.stmt = stmt]
                    /\ allOk' = (allOk /\ r.kind = "Ok")
                    /\ before' = [snap EXCEPT !.note.flushes = 1,
                                              !.note.failed = (f.res.kind = "Err")]
        ELSE /\ meta' = kept
             /\ result' = [res EXCEPT !.stmt = stmt]
             /\ allOk' = (allOk /\ res.kind = "Ok")
             /\ before' = snap

\* a statement that was refused before it touched the table
Refused(stmt, res) ==
    /\ UNCHANGED <<tables, disc, poisoned, open>>
    /\ Reply(stmt, res, NoSnapshot)

\* the statement on table name ends as handler outcome o describes; a panic
\* inside the handler unwinds through the write guard and poisons the lock
Finish(stmt, name, o, note) ==
    /\ tables' = [tables EXCEPT ![name] = o.tbl]
    /\ disc' = [disc EXCEPT ![name] = [data |-> o.data]]
    /\ poisoned' = IF o.res.kind = "Panic" THEN poisoned \cup {name} ELSE poisoned
    /\ UNCHANGED open
    /\ Reply(stmt, o.res, [Snapshot(name) EXCEPT !.note = note])

\* the rows SELECT * FROM the table returns, as a multiset
Multiset(rows) ==
    [r \in {rows[j] : j \in 1..Len(rows)} |->
        Cardinality({j \in 1..Len(rows) : rows[j] = r})]

SelectAll(tbl, data) ==
    select(tbl, data, <<Wildcard>>, NoExpr, NoOrder, CHOOSE o \in KeyOrders : TRUE).res

InsertNote(tbl, data, ins_cols, rows) ==
    LET one == /\ insert(tbl, data, ins_cols, rows).res.kind = "Ok"
               /\ Len(rows) = 1
               /\ rows[1][1] \notin DOMAIN tbl.idx.map
               /\ SelectAll(tbl, data).kind = "Ok"
    IN  [NoNote EXCEPT !.bad  = FirstUnstorable(tbl, rows),
                       !.one  = one,
                       !.key  = IF one THEN rows[1][1] ELSE Null,
                       !.rows = IF one THEN Multiset(SelectAll(tbl, data).rows) ELSE <<>>]

DeleteNote(tbl, data, condition, order) ==
    LET idx_expr == TrivialIdxExpr(tbl.idx.col, condition)
    IN  [NoNote EXCEPT !.undo = /\ before.note.one
                                /\ condition.kind # "None"
                                /\ idx_expr.ok /\ idx_expr.op = "Eq"
                                /\ idx_expr.val = before.note.key]

\* Executor::execute of an INSERT
Insert(name, ins_cols, rows) ==
    /\ name \in DOMAIN disc =>
          Len(disc[name].data) + Len(rows) <= MaxSlots + Len(tables[name].ghosts)
    /\ IF Locate(name).kind # "Ok" THEN Refused("Insert", Locate(name))
       ELSE Finish("Insert", name, insert(tables[name], disc[name].data, ins_cols, rows),
                   InsertNote(tables[name], disc[name].data, ins_cols, rows))
    /\ UNCHANGED <<root, evalVars, lockVars, wireVars, poolVars, clientVars>>

\* Executor::execute of an UPDATE
Update(name, assignments, condition, order) ==
    /\ IF Locate(name).kind # "Ok" THEN Refused("Update", Locate(name))
       ELSE Finish("Update", name, update(tables[name], disc[name].data,
                                assignments, condition, order), NoNote)
    /\ UNCHANGED <<root, evalVars, lockVars, wireVars, poolVars, clientVars>>

\* Executor::execute of a DELETE
Delete(name, condition, order) ==
    /\ IF Locate(name).kind # "Ok" THEN Refused("Delete", Locate(name))
       ELSE Finish("Delete", name, delete(tables[name], disc[name].data, condition, order),
                   DeleteNote(tables[name], disc[name].data, condition, order))
    /\ UNCHANGED <<root, evalVars, lockVars, wireVars, poolVars, clientVars>>

\* Executor::execute of a SELECT
Select(name, sel_cols, condition, order_by, order) ==
    /\ IF Locate(name).kind # "Ok" THEN Refused("Select", Locate(name))
       ELSE Finish("Select", name, select(tables[name], disc[name].data,
                                sel_cols, condition, order_by, order), NoNote)
    /\ UNCHANGED <<root, evalVars, lockVars, wireVars, poolVars, clientVars>>

\* a create_table that creates data.bongo before it looks for the table
CreateTableTruncating(name, cols) ==
    /\ IF name \in DOMAIN tables
       THEN /\ disc' = [disc EXCEPT ![name] = [data |-> <<>>]]
            /\ UNCHANGED <<tables, poisoned, open>>
            /\ Reply("CreateTable", Err("SqlRuntimeError"), NoSnapshot)
       ELSE IF name \in DOMAIN disc THEN Refused("CreateTable", Err("InternalError"))
       ELSE /\ tables' = [n \in (DOMAIN tables) \cup {name} |->
                            IF n = name THEN NewTable(cols) ELSE tables[n]]
            /\ disc' = [n \in (DOMAIN disc) \cup {name} |->
                            IF n = name THEN [data |-> <<>>] ELSE disc[n]]
            /\ UNCHANGED <<poisoned, open>>
            /\ Reply("CreateTable", OkNone,
                     [NoSnapshot EXCEPT !.note.made = name, !.note.was = tables,
                                        !.note.dirs = DOMAIN disc])
    /\ UNCHANGED <<root, evalVars, lockVars, wireVars, poolVars, clientVars>>

\* Executor::create_table
CreateTable(name, cols) ==
    /\ IF name \in DOMAIN tables THEN Refused("CreateTable", Err("SqlRuntimeError"))
       ELSE IF name \in DOMAIN disc THEN Refused("CreateTable", Err("InternalError"))
       ELSE /\ tables' = [n \in (DOMAIN tables) \cup {name} |->
                            IF n = name THEN NewTable(cols) ELSE tables[n]]
            /\ disc' = [n \in (DOMAIN disc) \cup {name} |->
                            IF n = name THEN [data |-> <<>>] ELSE disc[n]]
            /\ UNCHANGED <<poisoned, open>>
            /\ Reply("CreateTable", OkNone,
                     [NoSnapshot EXCEPT !.note.made = name, !.note.was = tables,
                                        !.note.dirs = DOMAIN disc])
    /\ UNCHANGED <<root, evalVars, lockVars, wireVars, poolVars, clientVars>>

DropTableCacheOnly(names) ==
    /\ IF \E j \in 1..Len(names) : names[j] \notin DOMAIN tables
       THEN Refused("DropTable", Err("SqlRuntimeError"))
       ELSE LET gone == {names[j] : j \in 1..Len(names)}
            IN  /\ tables' = [n \in (DOMAIN tables) \ gone |-> tables[n]]
                /\ poisoned' = poisoned \ gone
                /\ UNCHANGED <<disc, open>>
                /\ Reply("DropTable", OkNone,
                         [NoSnapshot EXCEPT !.note.undo =
                              (before.note.made # "" /\ names = <<before.note.made>>)])
    /\ UNCHANGED <<root, evalVars, lockVars, wireVars, poolVars, clientVars>>

\* a drop_table that checks each table only when its turn to be removed has
\* come
DropTableUnchecked(names) ==
    /\ LET first == IF \E j \in 1..Len(names) : names[j] \notin DOMAIN tables
                    THEN CHOOSE j \in 1..Len(names) :
                            /\ names[j] \notin DOMAIN tables
                            /\ \A h \in 1..(j - 1) : names[h] \in DOMAIN tables
                    ELSE Len(names) + 1
           gone  == {names[j] : j \in 1..(first - 1)}
       IN  /\ tables' = [n \in (DOMAIN tables) \ gone |-> tables[n]]
           /\ disc' = [n \in (DOMAIN disc) \ gone |-> disc[n]]
           /\ poisoned' = poisoned \ gone
           /\ UNCHANGED open
           /\ Reply("DropTable",
                    IF first <= Len(names) THEN Err("SqlRuntimeError") ELSE OkNone,
                    [NoSnapshot EXCEPT !.note.names = names])
    /\ UNCHANGED <<root, evalVars, lockVars, wireVars, poolVars, clientVars>>

\* Executor::drop_table: get_table_dir_if_exists for every name, then the
\* removal of every directory and map entry; a dropped table takes its lock
\* with it
DropTable(names) ==
    /\ IF \E j \in 1..Len(names) : names[j] \notin DOMAIN tables
       THEN /\ UNCHANGED <<tables, disc, poisoned, open>>
            /\ Reply("DropTable", Err("SqlRuntimeError"),
                     [NoSnapshot EXCEPT !.note.names = names])
       ELSE IF \E j \in 1..Len(names) : names[j] \notin DOMAIN disc
       THEN /\ UNCHANGED <<tables, disc, poisoned, open>>
            /\ Reply("DropTable", Err("InternalError"),
                     [NoSnapshot EXCEPT !.note.names = names])
       ELSE LET gone == {names[j] : j \in 1..Len(names)}
            IN  /\ tables' = [n \in (DOMAIN tables) \ gone |-> tables[n]]
                /\ disc' = [n \in (DOMAIN disc) \ gone |-> disc[n]]
                /\ poisoned' = poisoned \ gone
                /\ UNCHANGED open
                /\ Reply("DropTable", OkNone,
                         [NoSnapshot EXCEPT !.note.names = names, !.note.undo =
                              (before.note.made # "" /\ names = <<before.note.made>>)])
    /\ UNCHANGED <<root, evalVars, lockVars, wireVars, poolVars, clientVars>>

DropLists == {<<n>> : n \in TableNames \cup {"missing"}}

Next ==
    \/ \E n \in TableNames, c \in ColLists, r \in RowLists : Insert(n, c, r)
    \/ \E n \in TableNames, a \in AssignmentLists, c \in Conditions, o \in KeyOrders :
          Update(n, a, c, o)
    \/ \E n \in TableNames, c \in Conditions, o \in KeyOrders : Delete(n, c, o)
    \/ \E n \in TableNames, s \in SelectLists, c \in Conditions, b \in Orders,
          o \in KeyOrders : Select(n, s, c, b, o)
    \/ \E n \in TableNames, c \in Schemas : CreateTable(n, c)
    \/ \E d \in DropLists : DropTable(d)

Spec == Init /\ [][Next]_vars

----------------------------------------------------------------------------
(* Properties of the storage layout *)

\* the literals a root predicate compares the indexed column with
ProbeLits == KeyLits \cup {BoolLit(TRUE), Null}

\* the root predicates c op v and v op c on the indexed column
ProbeExprs(col) ==
    {BinaryExpr(Identifier(col), op, Value(v)) : op \in {"Eq", "NotEq"}, v \in ProbeLits}
      \cup {BinaryExpr(Value(v), op, Identifier(col)) :
                op \in {"Eq", "NotEq"}, v \in ProbeLits}

\* the offsets of the rows of the data file that are no ghosts
LiveOffsets(tbl, data) ==
    {(j - 1) * tbl.row_size : j \in 1..Len(data)}
        \ {tbl.ghosts[g] : g \in 1..Len(tbl.ghosts)}

\* C35: for every table state, literal v and op in {=, !=} the probe planner
\* answers the root predicate c op v (or v op c) on the indexed column c
\* without a residual predicate, and the rows it selects are exactly the
\* live rows for which Expr::eval of the predicate returns true: none for
\* which it returns false or an error, and all for which it returns true.
C35_ProbeSelectsWhatEvalAccepts ==
    \A n \in DOMAIN tables :
        Locate(n).kind = "Ok" =>
            \A e \in ProbeExprs(tables[n].idx.col), o \in KeyOrders :
                LET tbl     == tables[n]
                    indexer == from_opt_expr(tbl.idx, e, o)
                    planned == {indexer.indices[j] : j \in 1..Len(indexer.indices)}
                    ev(i)   == Eval(e, ReadRow(disc[n].data, i, tbl.row_size).row,
                                    get_col_names(tbl.cols))
                IN  /\ indexer.expr = NoExpr
                    /\ planned = {i \in LiveOffsets(tbl, disc[n].data) :
                                     ev(i).ok /\ ev(i).b}

\* the columns a select list names, a wildcard standing for all columns
NamedCols(sel_cols, cols) ==
    IF \E j \in 1..Len(sel_cols) : sel_cols[j].wild THEN get_col_names(cols)
    ELSE [j \in 1..Len(sel_cols) |-> sel_cols[j].name]

\* C38: each row a Select returns holds exactly the cells of the columns its
\* select list names, in the order in which the list names them; a wildcard
\* selects all columns in the order of the table.
C38_RowsFollowSelectList ==
    [][\A n \in TableNames, s \in SelectLists, c \in Conditions, b \in Orders,
          o \in KeyOrders :
          ( /\ result'.stmt = "Select" /\ result'.kind = "Ok"
            /\ Locate(n).kind = "Ok"
            /\ Select(n, s, c, b, o) )
          => LET all   == select(tables[n], disc[n].data, <<Wildcard>>, c, b, o).res.rows
                 named == NamedCols(s, tables[n].cols)
                 names == get_col_names(tables[n].cols)
             IN  result'.rows =
                    [r \in 1..Len(all) |->
                        [j \in 1..Len(named) |->
                            all[r][Position(names, named[j])]]]]_vars

RECURSIVE AllOffsets(_, _)
\* every offset of the index, key by key (keys is a set of keys of map)
AllOffsets(map, keys) ==
    IF keys = {} THEN <<>>
    ELSE LET k == CHOOSE x \in keys : TRUE
         IN  map[k] \o AllOffsets(map, keys \ {k})

NoDuplicates(seq) == \A a, b \in 1..Len(seq) : a # b => seq[a] # seq[b]
Range(seq) == {seq[j] : j \in 1..Len(seq)}
Slots(tbl, data) == {(j - 1) * tbl.row_size : j \in 1..Len(data)}

\* I1 and I2 of one table
SlotsPartitioned(tbl, data) ==
    LET indexed == AllOffsets(tbl.idx.map, DOMAIN tbl.idx.map)
    IN  /\ NoDuplicates(indexed \o tbl.ghosts)
        /\ \A o \in Range(indexed \o tbl.ghosts) : o % tbl.row_size = 0
        /\ Range(indexed) \cup Range(tbl.ghosts) = Slots(tbl, data)
        /\ Len(tbl.ghosts) + Len(indexed) = Len(data)

\* I3 of one table
KeysMatchRows(tbl, data) ==
    \A k \in DOMAIN tbl.idx.map : \A j \in 1..Len(tbl.idx.map[k]) :
        LET rd == ReadRow(data, tbl.idx.map[k][j], tbl.row_size)
        IN  rd.ok /\ rd.row[1] = k

\* C1: after any sequence of successful statements the ghost offsets and
\* the indexed offsets are disjoint, free of duplicates, multiples of
\* row_size, and together exactly the row slots of the data file.
C1_SlotsPartition ==
    allOk => \A n \in DOMAIN tables : SlotsPartitioned(tables[n], disc[n].data)

\* C2: after any sequence of successful statements the row at every offset
\* of idx[k] has k in its first column.
C2_IndexKeyMatchesRow ==
    allOk => \A n \in DOMAIN tables : KeysMatchRows(tables[n], disc[n].data)

\* C3: an UPDATE that returns an error has modified no row of the data file
\* and no index entry.
C3_FailedUpdateChangesNothing ==
    [][\A n \in TableNames, a \in AssignmentLists, c \in Conditions, o \in KeyOrders :
          (Update(n, a, c, o) /\ result'.kind = "Err")
              => (tables' = tables /\ disc' = disc)]_vars

\* the offsets of the live rows that condition c selects
Matched(tbl, data, c) ==
    {o \in Range(AllOffsets(tbl.idx.map, DOMAIN tbl.idx.map)) :
        \/ c.kind = "None"
        \/ LET ev == Eval(c, ReadRow(data, o, tbl.row_size).row, get_col_names(tbl.cols))
           IN  ev.ok /\ ev.b}

Entry(map, k) == IF k \in DOMAIN map THEN map[k] ELSE <<>>
Without(seq, S) == SelectSeq(seq, LAMBDA x : x \notin S)
Count(seq, x) == Cardinality({j \in 1..Len(seq) : seq[j] = x})

\* what C10 requires of the index after an UPDATE that moved the rows at
\* the offsets in hit to key v
IndexMoved(old, new, hit, v) ==
    /\ \A o \in hit : Count(Entry(new, v), o) = 1
    /\ \A k \in (DOMAIN old \cup DOMAIN new) \ {v} :
          /\ Entry(new, k) = Without(Entry(old, k), hit)
          /\ k \in DOMAIN new <=> Without(Entry(old, k), hit) # <<>>
    /\ Without(Entry(new, v), hit) = Without(Entry(old, v), hit)

\* C10: after a successful UPDATE that assigns v to the indexed column every
\* matched row is listed once under idx[v] at its offset and under no other
\* key, each old key has lost exactly the matched offsets, and the entries
\* of the other rows are unchanged.
C10_UpdateMovesIndexEntries ==
    [][\A n \in TableNames, v \in KeyLits, c \in Conditions, o \in KeyOrders :
          ( /\ Update(n, <<Assignment("k", v)>>, c, o)
            /\ result'.kind = "Ok"
            /\ SlotsPartitioned(tables[n], disc[n].data)
            /\ KeysMatchRows(tables[n], disc[n].data) )
          => IndexMoved(tables[n].idx.map, tables'[n].idx.map,
                        Matched(tables[n], disc[n].data, c), v)]_vars

\* the offset at which an INSERT writes its j-th row when it starts with
\* the ghost list ghosts and a data file of len row slots
RowPos(ghosts, len, row_size, j) ==
    IF j <= Len(ghosts) THEN ghosts[Len(ghosts) - j + 1]
    ELSE (len + (j - Len(ghosts) - 1)) * row_size

Min(a, b) == IF a <= b THEN a ELSE b

\* new is old followed by the elements of added, in some order
AppendedAll(old, new, added) ==
    /\ Len(new) = Len(old) + Len(added)
    /\ SubSeq(new, 1, Len(old)) = old
    /\ \A x \in Range(added) \cup Range(new) :
          Count(new, x) = Count(old, x) + Count(added, x)

\* C11: a DELETE without WHERE leaves the index empty and appends every
\* indexed offset to ghosts; an INSERT writes its rows at the ghost offsets,
\* the most recently appended one first, until ghosts is empty.
C11_GhostsReusedLifo ==
    [][\A n \in TableNames :
          /\ \A o \in KeyOrders :
                (result'.stmt = "Delete" /\ result'.kind = "Ok" /\ Delete(n, NoExpr, o))
                    => /\ tables'[n].idx.map = EmptyMap
                       /\ AppendedAll(tables[n].ghosts, tables'[n].ghosts,
                                      AllOffsets(tables[n].idx.map, DOMAIN tables[n].idx.map))
          /\ \A c \in ColLists, r \in RowLists :
                (result'.stmt = "Insert" /\ result'.kind = "Ok" /\ Insert(n, c, r))
                    => LET ghosts == tables[n].ghosts
                           g      == Len(ghosts)
                           m      == Min(g, Len(r))
                           pos(j) == RowPos(ghosts, Len(disc[n].data), tables[n].row_size, j)
                       IN  /\ tables'[n].ghosts = SubSeq(ghosts, 1, g - m)
                           /\ \A j \in 1..m :
                                 /\ pos(j) = ghosts[g - j + 1]
                                 /\ Count(Entry(tables'[n].idx.map, r[j][1]), pos(j)) >= 1
                                 /\ (\A j2 \in (j + 1)..Len(r) : pos(j2) # pos(j))
                                       => ReadRow(disc'[n].data, pos(j),
                                                  tables[n].row_size).row = r[j]]_vars

\* an INSERT of two rows has reused both offsets of a ghost list, the later
\* ghost for the first row
C11_Witness ==
    /\ result.stmt = "Insert" /\ result.kind = "Ok"
    /\ Len(before.ghosts) = 2
    /\ \E n \in DOMAIN tables :
          /\ tables[n].ghosts = <<>>
          /\ Len(disc[n].data) = 2
          /\ before.ghosts[1] # before.ghosts[2]
          /\ disc[n].data[(before.ghosts[2] \div tables[n].row_size) + 1][1]
                # disc[n].data[(before.ghosts[1] \div tables[n].row_size) + 1][1]

\* C12: an INSERT of n rows into a table with g ghosts leaves the length of
\* the data file unchanged when n <= g and grows it by n - g rows otherwise;
\* the file never shrinks.
C12_FileGrowsByRowsBeyondGhosts ==
    [][/\ \A n \in TableNames, c \in ColLists, r \in RowLists :
             (result'.stmt = "Insert" /\ result'.kind = "Ok" /\ Insert(n, c, r))
                 => LET g == Len(tables[n].ghosts)
                    IN  Len(disc'[n].data) =
                            Len(disc[n].data) + (IF Len(r) <= g THEN 0 ELSE Len(r) - g)
       /\ \A n \in DOMAIN disc \cap DOMAIN disc' :
             n \in DOMAIN tables /\ n \in DOMAIN tables' /\ result'.stmt # "DropTable"
                 => Len(disc'[n].data) >= Len(disc[n].data)]_vars

\* an INSERT of two rows has reused the one ghost and appended one row
C12_Witness ==
    /\ result.stmt = "Insert" /\ result.kind = "Ok"
    /\ Len(before.ghosts) = 1
    /\ \E n \in DOMAIN tables :
          /\ tables[n].ghosts = <<>>
          /\ Len(disc[n].data) = before.len + 1

\* the bookkeeping of one table agrees with its index and its data file
Accounted(n) ==
    /\ tables[n].row_count =
          Len(AllOffsets(tables[n].idx.map, DOMAIN tables[n].idx.map))
    /\ tables[n].row_count = Len(disc[n].data) - Len(tables[n].ghosts)

\* C13: after any sequence of successful statements row_count equals the
\* number of offsets in the index and the number of row slots of the data
\* file minus the number of ghosts; a single-row INSERT into a fresh table
\* gives row_count = 1 and a data file of one row.
C13_RowCountAccounted ==
    /\ [](allOk => \A n \in DOMAIN tables : n \in DOMAIN disc => Accounted(n))
    /\ [][\A n \in TableNames, c \in ColLists, r \in RowLists :
             (/\ result'.stmt = "Insert" /\ result'.kind = "Ok"
              /\ Insert(n, c, r)
              /\ Len(r) = 1
              /\ tables[n] = NewTable(tables[n].cols)
              /\ disc[n].data = <<>>)
                 => /\ tables'[n].row_count = 1
                    /\ Len(disc'[n].data) * tables'[n].row_size = tables'[n].row_size]_vars

\* C14: a DELETE that returns an error leaves the index, the ghost list and
\* row_count of every table as they were.
C14_FailedDeleteChangesNothing ==
    [][(result'.stmt = "Delete" /\ result'.kind = "Err")
          => \A n \in TableNames, c \in Conditions, o \in KeyOrders :
                Delete(n, c, o) => UNCHANGED <<tables, disc>>]_vars

\* a DELETE over a table that holds rows has failed on its predicate
C14_Witness ==
    /\ result.stmt = "Delete" /\ result.kind = "Err"
    /\ result.err = "SqlRuntimeError"
    /\ \E n \in DOMAIN tables : tables[n].row_count = 2 /\ DOMAIN tables[n].idx.map # {}

\* C15: an INSERT whose column list differs from the table's column names in
\* order, or one of whose rows the table cannot store, fails with a
\* SqlRuntime error, writes no row, pops no ghost and leaves the index and
\* row_count as they were, also for the storable rows before the bad one.
C15_RejectedInsertChangesNothing ==
    [][(result'.stmt = "Insert")
          => \A n \in TableNames, c \in ColLists, r \in RowLists :
                (/\ Insert(n, c, r)
                 /\ Locate(n).kind = "Ok"
                 /\ \/ c # get_col_names(tables[n].cols)
                    \/ \E j \in 1..Len(r) : ~can_store(tables[n], r[j]))
                   => /\ result'.kind = "Err"
                      /\ result'.err = "SqlRuntimeError"
                      /\ UNCHANGED <<tables, disc>>]_vars

\* an INSERT whose second row cannot be stored has been rejected by a table
\* that had a ghost to offer
C15_Witness ==
    /\ result.stmt = "Insert" /\ result.kind = "Err"
    /\ result.err = "SqlRuntimeError"
    /\ before.note.bad = 2
    /\ before.ghosts # <<>>
    /\ \E n \in DOMAIN tables : tables[n].ghosts = before.ghosts

\* C16: an INSERT of one row under a key the table does not hold, followed
\* by DELETE ... WHERE indexed_col = that key, leaves SELECT * returning the
\* multiset of rows it returned before the INSERT.
C16_InsertThenDeleteRestoresRows ==
    [][(before.note.one /\ result'.stmt = "Delete" /\ before'.note.undo)
          => /\ result'.kind = "Ok"
             /\ \A n \in DOMAIN tables' :
                   /\ SelectAll(tables'[n], disc'[n].data).kind = "Ok"
                   /\ Multiset(SelectAll(tables'[n], disc'[n].data).rows)
                         = before.note.rows]_vars

\* C24: whatever statements one client has executed before, execute returns
\* a BongoResult, Ok or Err: no statement makes it panic.
C24_ExecuteAlwaysReturns ==
    result.kind \in {"None", "Ok", "Err"}

----------------------------------------------------------------------------
(* SpecFlush: one client, the meta files, teardown and restart *)

FlushRowLists   == {<<(<<IntLit(1), BoolLit(TRUE)>>)>>, <<(<<IntLit(2), Null>>)>>}
FlushConditions == {NoExpr, BinaryExpr(Identifier("k"), "Eq", Value(IntLit(1)))}
FlushDropLists  == {<<n>> : n \in AllNames} \cup {<<"t", "u">>}

InitFlush ==
    /\ tables = [n \in {} |-> 0]
    /\ disc = [n \in {} |-> 0]
    /\ meta = [n \in {} |-> 0]
    /\ open = TRUE
    /\ root = TRUE
    /\ NoWire /\ NoPool /\ NoClient
    /\ poisoned = {}
    /\ result = NoResult
    /\ allOk = TRUE
    /\ before = NoSnapshot
    /\ evalIn = <<>>
    /\ evalOut = <<>>
    /\ pc = <<>> /\ job = <<>> /\ outer = <<>> /\ inner = <<>>
    /\ flag = <<>> /\ seen = <<>> /\ live = {} /\ dirs = {}
    /\ auto_flush \in BOOLEAN /\ par = {}

\* Executor::execute of a FLUSH
Flush(torder, korder) ==
    /\ LET f == flush(tables, poisoned, DOMAIN disc, meta, torder, korder)
       IN  /\ meta' = f.meta
           /\ result' = [f.res EXCEPT !.stmt = "Flush"]
           /\ allOk' = (allOk /\ f.res.kind = "Ok")
           /\ before' = [NoSnapshot EXCEPT !.note.flushes = 1,
                                           !.note.failed = (f.res.kind = "Err")]
    /\ UNCHANGED <<tables, disc, poisoned, open, root, evalVars, lockVars, wireVars, poolVars, clientVars>>

CloseWithoutFlush(torder, korder) ==
    /\ open
    /\ open' = FALSE
    /\ tables' = [n \in {} |-> 0]
    /\ poisoned' = {}
    /\ result' = [OkNone EXCEPT !.stmt = "Close"]
    /\ before' = [NoSnapshot EXCEPT !.note.was = tables]
    /\ UNCHANGED <<meta, allOk, disc, root, evalVars, lockVars, wireVars, poolVars, clientVars>>

\* impl Drop for Executor: the final flush, whose failure is a panic, and
\* the end of the table map
Close(torder, korder) ==
    /\ open
    /\ open' = FALSE
    /\ LET f == flush(tables, poisoned, DOMAIN disc, meta, torder, korder)
       IN  /\ meta' = f.meta
           /\ result' = [(IF f.res.kind = "Err" THEN Panic ELSE OkNone)
                            EXCEPT !.stmt = "Close"]
           /\ allOk' = (allOk /\ f.res.kind = "Ok")
           /\ before' = [NoSnapshot EXCEPT !.note.was = tables,
                                           !.note.flushes = 1,
                                           !.note.failed = (f.res.kind = "Err")]
    /\ tables' = [n \in {} |-> 0]
    /\ poisoned' = {}
    /\ UNCHANGED <<disc, root, evalVars, lockVars, wireVars, poolVars, clientVars>>

\* Executor::load_tables_from_disc: one table for every entry of db_root
load_tables_from_disc ==
    IF \E d \in DOMAIN disc : d \notin DOMAIN meta
    THEN [res |-> Err("ReadFileError"), tables |-> [n \in {} |-> 0]]
    ELSE [res    |-> OkNone,
          tables |-> [n \in {deserialize(meta[d]).name : d \in DOMAIN disc} |->
                        LET d == CHOOSE e \in DOMAIN disc : deserialize(meta[e]).name = n
                        IN  deserialize(meta[d]).tbl]]

\* Executor::new with create_db = false on the db_root of the Executor that
\* was torn down; when it fails there is no Executor
Reopen ==
    /\ ~open
    /\ open' = (load_tables_from_disc.res.kind = "Ok")
    /\ tables' = load_tables_from_disc.tables
    /\ result' = [load_tables_from_disc.res EXCEPT !.stmt = "Reopen"]
    /\ allOk' = (allOk /\ load_tables_from_disc.res.kind = "Ok")
    /\ before' = IF load_tables_from_disc.res.kind = "Ok"
                 THEN [NoSnapshot EXCEPT !.note.was = before.note.was]
                 ELSE before
    /\ UNCHANGED <<disc, meta, poisoned, root, evalVars, lockVars, wireVars, poolVars, clientVars>>

NextFlush ==
    \/ open /\ \E r \in FlushRowLists : Insert("t", <<"k", "b">>, r)
    \/ open /\ \E c \in FlushConditions, o \in KeyOrders :
                  Update("t", <<Assignment("k", IntLit(1))>>, c, o)
    \/ open /\ \E c \in FlushConditions, o \in KeyOrders : Delete("t", c, o)
    \/ open /\ \E o \in KeyOrders : Select("t", <<Wildcard>>, NoExpr, NoOrder, o)
    \/ open /\ \E n \in AllNames, c \in Schemas : CreateTable(n, c)
    \/ open /\ \E d \in FlushDropLists : DropTable(d)
    \/ open /\ \E torder \in TableOrders, korder \in KeyOrders : Flush(torder, korder)
    \/ \E torder \in TableOrders, korder \in KeyOrders : Close(torder, korder)
    \/ Reopen

SpecFlush == InitFlush /\ [][NextFlush]_vars

\* C17: CREATE TABLE t immediately followed by DROP TABLE t returns the
\* table map and the set of entries of db_root to what they were before the
\* CREATE TABLE.
C17_CreateThenDropRestores ==
    [][(before.note.made # "" /\ DropTable(<<before.note.made>>))
          => /\ before'.note.undo
             /\ tables' = before.note.was
             /\ DOMAIN disc' = before.note.dirs]_vars

\* a table has been created and dropped again beside a table that holds a row
C17_Witness ==
    /\ result.stmt = "DropTable" /\ result.kind = "Ok"
    /\ before.note.undo
    /\ \E n \in DOMAIN tables : n \in DOMAIN disc /\ tables[n].row_count >= 1

\* C18: after successful statements, a teardown and a restart on the same
\* db_root with create_db = false, the table map and every table's metadata
\* are those the teardown found, and every SELECT returns the rows it
\* would have returned then.
C18_RestartRestoresTables ==
    [][(~open /\ allOk /\ result'.stmt = "Reopen")
          => /\ open'
             /\ result'.kind = "Ok"
             /\ tables' = before.note.was
             /\ \A n \in DOMAIN tables' :
                   \A sel \in SelectLists, c \in Conditions, b \in Orders, o \in KeyOrders :
                      select(tables'[n], disc'[n].data, sel, c, b, o).res
                         = select(before.note.was[n], disc[n].data, sel, c, b, o).res]_vars

\* an Executor without auto_flush has been torn down and started again with
\* two tables, one of them holding a row and a ghost
C18_Witness ==
    /\ open /\ allOk /\ ~auto_flush
    /\ result.stmt = "Reopen" /\ result.kind = "Ok"
    /\ DOMAIN tables = AllNames
    /\ tables["t"].row_count >= 1
    /\ tables["t"].ghosts # <<>>
    /\ tables = before.note.was

\* C27: CREATE TABLE of a table that exists returns an error and leaves the
\* table's metadata, directory and data file as they are; a successful
\* CREATE TABLE adds a table with an empty index on its first column, an
\* empty ghost list, row_count 0 and the sum of the columns' disk sizes as
\* row_size, and leaves the other tables alone.
C27_CreateTableAddsEmptyTable ==
    [][\A n \in AllNames, c \in Schemas :
          (result'.stmt = "CreateTable" /\ CreateTable(n, c)) =>
              IF n \in DOMAIN tables
              THEN /\ result'.kind = "Err"
                   /\ tables' = tables
                   /\ disc' = disc
              ELSE result'.kind = "Ok" =>
                   /\ DOMAIN tables' = DOMAIN tables \cup {n}
                   /\ DOMAIN disc' = DOMAIN disc \cup {n}
                   /\ \A m \in DOMAIN tables : tables'[m] = tables[m] /\ disc'[m] = disc[m]
                   /\ disc'[n].data = <<>>
                   /\ tables'[n].cols = c
                   /\ tables'[n].idx = [col |-> c[1].name, map |-> EmptyMap]
                   /\ tables'[n].ghosts = <<>>
                   /\ tables'[n].row_count = 0
                   /\ tables'[n].row_size = SumSizes(c)]_vars

\* CREATE TABLE t has been refused while t held a row
C27_Witness ==
    /\ result.stmt = "CreateTable" /\ result.kind = "Err"
    /\ result.err = "SqlRuntimeError"
    /\ "t" \in DOMAIN tables /\ tables["t"].row_count >= 1
    /\ Len(disc["t"].data) >= 1

\* C28: a DROP TABLE that names a table which is not in the table map or
\* has no directory returns an error and removes nothing, whichever
\* position the missing table has in the list; otherwise it removes every
\* table it names.
C28_DropTableChecksBeforeRemoving ==
    [][\A d \in FlushDropLists :
          (result'.stmt = "DropTable" /\ DropTable(d)) =>
              IF \E j \in 1..Len(d) : d[j] \notin DOMAIN tables \/ d[j] \notin DOMAIN disc
              THEN /\ result'.kind = "Err"
                   /\ tables' = tables
                   /\ disc' = disc
              ELSE result'.kind = "Ok" =>
                   /\ DOMAIN tables' = DOMAIN tables \ {d[j] : j \in 1..Len(d)}
                   /\ DOMAIN disc' = DOMAIN disc \ {d[j] : j \in 1..Len(d)}]_vars

\* DROP TABLE t, u has been refused because u does not exist, and t is
\* still there
C28_Witness ==
    /\ result.stmt = "DropTable" /\ result.kind = "Err"
    /\ before.note.names = <<"t", "u">>
    /\ "t" \in DOMAIN tables /\ "t" \in DOMAIN disc
    /\ "u" \notin DOMAIN tables

\* the statements execute follows with a flush when auto_flush is set
FlushedStmts == {"Insert", "Update", "Delete", "CreateTable", "DropTable"}

\* every table's meta.bongo holds the table's metadata as they are in memory
MetaCurrent ==
    /\ DOMAIN meta = DOMAIN tables
    /\ \A n \in DOMAIN tables : deserialize(meta[n]) = [name |-> n, tbl |-> tables[n]]

----------------------------------------------------------------------------
(* SpecSql: Executor::new on a db_root that does not exist yet, and execute
   of SQL texts, which SqlParser::parse turns into statements *)

\* an SQL text is the sequence of its lexemes: words, blanks and semicolons
SqlTexts ==
    { <<>>,
      <<" ">>,
      <<";">>,
      <<"flush", ";">>,
      <<"FLUSH", " ", ";">>,
      <<"Flush", " ", " ", ";">>,
      <<"DROP", " ", "TABLE", " ", "t", ";">>,
      <<"drop", " ", "table", " ", "u">>,
      <<"DROP", " ", "TABLE", " ", "t", " ", "DROP", " ", "TABLE", " ", "u">> }

\* keywords are matched without regard to case
Upper(w) ==
    CASE w \in {"flush", "Flush"} -> "FLUSH"
      [] w = "drop"  -> "DROP"
      [] w = "table" -> "TABLE"
      [] OTHER -> w

NoStatement == [kind |-> "None", names |-> <<>>]

RECURSIVE parse_statements(_, _, _)
\* sqlparser's Parser::parse_sql on the tokens that are not whitespace:
\* semicolons separate statements, the end of the text ends the list
parse_statements(tokens, stmts, expecting_statement_delimiter) ==
    IF tokens = <<>> THEN [kind |-> "Ok", stmts |-> stmts]
    ELSE IF Head(tokens) = ";" THEN parse_statements(Tail(tokens), stmts, FALSE)
    ELSE IF expecting_statement_delimiter THEN [kind |-> "Err", stmts |-> <<>>]
    ELSE IF /\ Len(tokens) >= 3
            /\ Upper(tokens[1]) = "DROP" /\ Upper(tokens[2]) = "TABLE"
            /\ tokens[3] \in AllNames
         THEN parse_statements(SubSeq(tokens, 4, Len(tokens)),
                               Append(stmts, [kind |-> "Drop", names |-> <<tokens[3]>>]),
                               TRUE)
    ELSE [kind |-> "Err", stmts |-> <<>>]

parse_sql(sql) ==
    parse_statements(SelectSeq(sql, LAMBDA x : x # " "), <<>>, FALSE)

\* SqlParser::parse: stmts.remove(0) of the statements Parser::parse_sql
\* returned, which panics when there is none, then ast_to_statement
SqlParser(sql) ==
    LET parse_result == parse_sql(sql)
    IN  IF parse_result.kind = "Err"
        THEN [kind |-> "Err", err |-> "SqlSyntaxError", stmt |-> NoStatement]
        ELSE IF parse_result.stmts = <<>>
        THEN [kind |-> "Panic", err |-> "panic", stmt |-> NoStatement]
        ELSE [kind |-> "Ok", err |-> "none",
              stmt |-> [kind |-> "DropTable", names |-> parse_result.stmts[1].names]]

\* a get_db_root_dir that creates the directory whatever create_db says
get_db_root_dir_creating(create_db) ==
    [res |-> OkNone, root |-> TRUE]

\* Executor::get_db_root_dir
get_db_root_dir(create_db) ==
    IF ~root
    THEN IF create_db THEN [res |-> OkNone, root |-> TRUE]
         ELSE [res |-> Err("DatabaseNotFoundError"), root |-> FALSE]
    ELSE [res |-> OkNone, root |-> TRUE]

InitSql ==
    /\ tables = [n \in {} |-> 0]
    /\ disc = [n \in {} |-> 0]
    /\ meta = [n \in {} |-> 0]
    /\ open = FALSE
    /\ root = FALSE
    /\ NoWire /\ NoPool /\ NoClient
    /\ poisoned = {}
    /\ result = NoResult
    /\ allOk = TRUE
    /\ before = NoSnapshot
    /\ evalIn = <<>>
    /\ evalOut = <<>>
    /\ pc = <<>> /\ job = <<>> /\ outer = <<>> /\ inner = <<>>
    /\ flag = <<>> /\ seen = <<>> /\ live = {} /\ dirs = {}
    /\ auto_flush \in BOOLEAN /\ par = {}

\* Executor::new: get_db_root_dir, then load_tables_from_disc; when either
\* fails there is no Executor
New(create_db) ==
    /\ ~open
    /\ LET dir == get_db_root_dir(create_db)
           res == IF dir.res.kind = "Err" THEN dir.res ELSE load_tables_from_disc.res
       IN  /\ root' = dir.root
           /\ open' = (res.kind = "Ok")
           /\ tables' = IF res.kind = "Ok" THEN load_tables_from_disc.tables ELSE tables
           /\ result' = [res EXCEPT !.stmt = "New"]
           /\ allOk' = (allOk /\ res.kind = "Ok")
           /\ before' = [NoSnapshot EXCEPT !.note.made =
                            IF dir.root /\ ~root THEN "db_root" ELSE ""]
    /\ UNCHANGED <<disc, meta, poisoned, evalVars, lockVars, wireVars, poolVars, clientVars>>

\* Executor::execute: SqlParser::parse(&request.sql)?, whose error is
\* returned and whose panic is not caught, then the statement's handler
ExecuteSql(sql) ==
    /\ open
    /\ LET parsed == SqlParser(sql)
       IN  CASE parsed.kind = "Panic" ->
                  /\ result' = [Panic EXCEPT !.stmt = "Parse"]
                  /\ allOk' = FALSE
                  /\ before' = NoSnapshot
                  /\ UNCHANGED <<tables, disc, poisoned, meta, open, root,
                                 evalVars, lockVars, wireVars, poolVars, clientVars>>
             [] parsed.kind = "Err" ->
                  /\ result' = [Err(parsed.err) EXCEPT !.stmt = "Parse"]
                  /\ allOk' = FALSE
                  /\ before' = NoSnapshot
                  /\ UNCHANGED <<tables, disc, poisoned, meta, open, root,
                                 evalVars, lockVars, wireVars, poolVars, clientVars>>
             [] parsed.kind = "Ok" /\ parsed.stmt.kind = "Flush" ->
                  \E torder \in TableOrders, korder \in KeyOrders : Flush(torder, korder)
             [] parsed.kind = "Ok" /\ parsed.stmt.kind = "DropTable" ->
                  DropTable(parsed.stmt.names)

\* the columns of CREATE TABLE t (k INT, k BOOLEAN), which
\* vec_col_def_from_vec_col_def converts one by one
RepeatedCols == <<ColumnDef("k", DInt), ColumnDef("k", DBool)>>

NextSql ==
    \/ \E create_db \in BOOLEAN : New(create_db)
    \/ \E sql \in SqlTexts : ExecuteSql(sql)
    \/ open /\ \E n \in AllNames, c \in Schemas \cup {RepeatedCols} :
                  CreateTable(n, c)
    \/ open /\ \E r \in FlushRowLists : Insert("t", <<"k", "b">>, r)
    \/ \E torder \in TableOrders, korder \in KeyOrders : Close(torder, korder)

SpecSql == InitSql /\ [][NextSql]_vars

\* C32: the column names of every table in the metadata map are pairwise
\* distinct; a CreateTable whose column list repeats a name never results
\* in a table with two columns of the same name.
C32_ColumnNamesDistinct ==
    \A n \in DOMAIN tables :
        \A i \in 1..Len(tables[n].cols), j \in 1..Len(tables[n].cols) :
            i # j => tables[n].cols[i].name # tables[n].cols[j].name

\* the texts that are empty or hold nothing but whitespace
IsEmptySql(sql) == \A j \in 1..Len(sql) : sql[j] = " "

\* C25: executing an SQL text that holds no statement, because it is empty
\* or consists of whitespace only, returns the EmptySqlStatement error.
C25_EmptySqlIsEmptyStatementError ==
    [][\A sql \in SqlTexts :
          (IsEmptySql(sql) /\ ExecuteSql(sql))
              => result' = [Err("EmptySqlStatementError") EXCEPT !.stmt = "Parse"]]_vars

\* the texts "flush", optional whitespace, ";" in any letter case
IsFlushSql(sql) ==
    /\ Len(sql) >= 2
    /\ Upper(sql[1]) = "FLUSH"
    /\ sql[Len(sql)] = ";"
    /\ \A j \in 2..(Len(sql) - 1) : sql[j] = " "

\* C26: the text "flush", optional whitespace and a semicolon, in any letter
\* case, is executed as the Flush statement: execute returns Ok(None) and
\* every table's meta file holds the table's metadata, also when there is
\* no table.
C26_FlushTextIsFlushStatement ==
    [][\A sql \in SqlTexts :
          (IsFlushSql(sql) /\ ExecuteSql(sql))
              => /\ result'.kind = "Ok" /\ ~result'.some
                 /\ MetaCurrent']_vars

\* C29: Executor::new on a db_root that does not exist returns
\* DatabaseNotFoundError and creates nothing when create_db is false; when
\* create_db is true it creates db_root and the Executor starts with an
\* empty table map.
C29_NewOnMissingRoot ==
    [][\A create_db \in BOOLEAN :
          (~root /\ New(create_db))
              => IF create_db
                 THEN /\ root' /\ open'
                      /\ result'.kind = "Ok"
                      /\ tables' = [n \in {} |-> 0]
                 ELSE /\ ~root' /\ ~open'
                      /\ result'.kind = "Err"
                      /\ result'.err = "DatabaseNotFoundError"
                      /\ disc' = disc /\ meta' = meta]_vars

\* Executor::new has failed on the missing db_root and has then created it
C29_Witness ==
    /\ ~allOk
    /\ result.stmt = "New" /\ result.kind = "Ok"
    /\ before.note.made = "db_root"
    /\ root /\ open /\ DOMAIN tables = {}

----------------------------------------------------------------------------
(* SpecEval: the evaluator applied to bounded inputs *)

EvalLits == {IntLit(0), IntLit(3), BoolLit(TRUE), BoolLit(FALSE),
             VarcharLit(<<>>), VarcharLit(<<97>>), Null}
EvalRows == {<<k, b>> : k \in {IntLit(3), Null},
                        b \in {BoolLit(TRUE), BoolLit(FALSE), Null}}
EvalExprs ==
    {Identifier("b"), Identifier("k"), Identifier("zz")}
      \cup {Value(l) : l \in {BoolLit(TRUE), Null, IntLit(3)}}
      \cup {BinaryExpr(Identifier(c), op, Value(l)) :
                c \in {"k", "b"}, op \in {"Eq", "Lt", "And"}, l \in {Null, IntLit(3)}}

\* the rows of a table of the columns k, b, in the order of their insertion
SortLen  == 3
SortRows == [1..SortLen -> {<<k, b>> : k \in KeyLits,
                                       b \in {BoolLit(TRUE), BoolLit(FALSE), Null}}]

\* bongo-core/types.rs: the byte representation of literals and rows on disc.
\* A string is the sequence of its UTF-8 bytes.

\* the bytes a cell may hold where the code never wrote one
PadBytes == {0, 97, 255}
MaxPad   == 2
PadSeqs  == [1..MaxPad -> PadBytes]

\* the bytes that Vec::set_len exposes behind the bytes pushed so far: they
\* were never initialised and hold any values
Uninit(n, pad) == [k \in 1..n |-> pad[((k - 1) % MaxPad) + 1]]

OkBytes(b)  == [ok |-> TRUE,  bytes |-> b,    err |-> "none"]
ErrBytes(e) == [ok |-> FALSE, bytes |-> <<>>, err |-> e]
OkRow(r)    == [ok |-> TRUE,  row |-> r,    err |-> "none"]
ErrRow(e)   == [ok |-> FALSE, row |-> <<>>, err |-> e]

\* i64::to_be_bytes: the two's complement of val in eight bytes, the most
\* significant first (the values drawn have at most 32 bits)
i64_to_be_bytes(val) ==
    [j \in 1..8 |-> IF j <= 4 THEN (IF val < 0 THEN 255 ELSE 0)
                    ELSE (val \div (256 ^ (8 - j))) % 256]

\* i64::from_be_bytes; a value of more than 32 bits is kept as its bytes
i64_from_be_bytes(p) ==
    LET low == p[6] * 65536 + p[7] * 256 + p[8]
    IN  CASE (\A j \in 1..4 : p[j] = 0) /\ p[5] < 128
                -> IntLit(p[5] * 16777216 + low)
          [] (\A j \in 1..4 : p[j] = 255) /\ p[5] >= 128
                -> IntLit((p[5] - 256) * 16777216 + low)
          [] OTHER -> [t |-> "Int", i |-> 0, s |-> p]

RECURSIVE from_utf8(_)
\* String::from_utf8 accepts the bytes (forms of one to four bytes; overlong
\* and surrogate forms of three and four bytes are not told apart)
from_utf8(b) ==
    LET cont(j) == j <= Len(b) /\ b[j] \in 128..191
        rest(n) == from_utf8(SubSeq(b, n + 1, Len(b)))
    IN  CASE b = <<>>                                       -> TRUE
          [] b # <<>> /\ b[1] < 128                         -> rest(1)
          [] b # <<>> /\ b[1] \in 194..223 /\ cont(2)       -> rest(2)
          [] b # <<>> /\ b[1] \in 224..239 /\ cont(2) /\ cont(3) -> rest(3)
          [] b # <<>> /\ b[1] \in 240..244 /\ cont(2) /\ cont(3) /\ cont(4)
                                                            -> rest(4)
          [] OTHER                                          -> FALSE

\* impl AsDiscBytes<&D> for BongoLiteral
as_disc_bytes(lit, def, pad) ==
    IF ~DataTypeCanStore(def, lit) THEN ErrBytes("InternalError")
    ELSE CASE lit.t = "Int"  -> OkBytes(<<1>> \o i64_to_be_bytes(lit.i))
           [] lit.t = "Bool" -> OkBytes(<<1, lit.i>>)
           [] lit.t = "Null" -> OkBytes(<<0>> \o Uninit(disc_size(def) - 1, pad))
           [] OTHER          ->
                OkBytes(<<1>> \o lit.s \o <<255>>
                          \o Uninit(disc_size(def) - Len(lit.s) - 2, pad))

\* a decoder that takes the payload up to the last byte 0xFF
from_disc_bytes_last_delim(bytes, def) ==
    IF Len(bytes) # disc_size(def) THEN ErrLit("InternalError")
    ELSE IF bytes[1] = 0 THEN OkLit(Null)
    ELSE LET payload == Tail(bytes)
             ends    == {j \in 1..Len(payload) : payload[j] = 255}
         IN  CASE def.t = "Int"  -> OkLit(i64_from_be_bytes(payload))
               [] def.t = "Bool" -> OkLit(BoolLit(payload[1] # 0))
               [] OTHER ->
                    IF ends = {} THEN ErrLit("InternalError")
                    ELSE LET delim == CHOOSE j \in ends : \A h \in ends : h <= j
                         IN  OkLit(VarcharLit(SubSeq(payload, 1, delim - 1)))
\* impl FromDiscBytes<D> for BongoLiteral
from_disc_bytes(bytes, def) ==
    IF Len(bytes) # disc_size(def) THEN ErrLit("InternalError")
    ELSE IF bytes[1] = 0 THEN OkLit(Null)
    ELSE LET payload == Tail(bytes)
             delim   == Position(payload, 255)
         IN  CASE def.t = "Int"  -> OkLit(i64_from_be_bytes(payload))
               [] def.t = "Bool" -> OkLit(BoolLit(payload[1] # 0))
               [] OTHER ->
                    IF delim = 0 THEN ErrLit("InternalError")
                    ELSE IF from_utf8(SubSeq(payload, 1, delim - 1))
                         THEN OkLit(VarcharLit(SubSeq(payload, 1, delim - 1)))
                         ELSE ErrLit("InternalError")

\* impl AsDiscBytes<&[D]> for Row; pads[j] is what cell j holds unwritten
row_as_disc_bytes(row, def, pads) ==
    IF Len(row) # Len(def) THEN ErrBytes("InternalError")
    ELSE LET cells == [j \in 1..Len(row) |->
                          as_disc_bytes(row[j], def[j].data_type, pads[j])]
         IN  IF \E j \in 1..Len(row) : ~cells[j].ok
             THEN ErrBytes("InternalError")
             ELSE OkBytes(Concat([j \in 1..Len(row) |-> cells[j].bytes]))

RECURSIVE row_from_disc_bytes(_, _)
\* impl FromDiscBytes<&[D]> for Row: read_bytes takes disc_size bytes of
\* every column from the running offset
row_from_disc_bytes(bytes, def) ==
    IF def = <<>> THEN OkRow(<<>>)
    ELSE LET width == disc_size(Head(def).data_type)
             cell == IF Len(bytes) < width THEN ErrLit("InternalError")
                     ELSE from_disc_bytes(SubSeq(bytes, 1, width),
                                          Head(def).data_type)
             rest == row_from_disc_bytes(
                         SubSeq(bytes, width + 1, Len(bytes)), Tail(def))
         IN  IF cell.ok /\ rest.ok THEN OkRow(<<cell.lit>> \o rest.row)
             ELSE ErrRow("InternalError")

\* schemas and rows given to the conversions
DiscTypes   == {DInt, DBool, DVarchar(0), DVarchar(2)}
DiscLits    == {IntLit(0), IntLit(0 - 1), IntLit(259), BoolLit(TRUE),
                BoolLit(FALSE), VarcharLit(<<>>), VarcharLit(<<97>>),
                VarcharLit(<<195, 169>>), VarcharLit(<<97, 98, 99>>), Null}
DiscSchemas == {<<ColumnDef("k", d)>> : d \in DiscTypes}
                 \cup {<<ColumnDef("k", d), ColumnDef("b", e)>> :
                          d \in DiscTypes, e \in DiscTypes}
DiscRows    == {<<l>> : l \in DiscLits} \cup (DiscLits \X DiscLits)
DiscInput(row, def) == [kind |-> "disc", row |-> row, def |-> def]

ApplyInput(op, l, r) == [kind |-> "apply", op |-> op, left |-> l, right |-> r]
SortInput(rows, order_by, order) ==
    [kind |-> "sort", rows |-> rows, order_by |-> order_by, order |-> order]
EvalInput(e, row)    == [kind |-> "eval", expr |-> e, row |-> row]
Pending              == [done |-> FALSE]

InitEval ==
    /\ evalIn \in {ApplyInput(op, l, r) : op \in BinOps, l \in EvalLits, r \in EvalLits}
                    \cup {EvalInput(e, row) : e \in EvalExprs, row \in EvalRows}
                    \cup {SortInput(rows, order_by, order) :
                             rows \in SortRows, order_by \in {Asc("b"), Desc("b")},
                             order \in KeyOrders}
                    \cup {DiscInput(row, def) : row \in DiscRows, def \in DiscSchemas}
    /\ evalOut = Pending
    /\ tables = [n \in {} |-> 0]
    /\ disc = [n \in {} |-> 0]
    /\ poisoned = {}
    /\ result = NoResult
    /\ allOk = TRUE
    /\ before = NoSnapshot
    /\ meta = [n \in {} |-> 0]
    /\ open = TRUE
    /\ root = TRUE
    /\ NoWire /\ NoPool /\ NoClient
    /\ pc = <<>> /\ job = <<>> /\ outer = <<>> /\ inner = <<>>
    /\ flag = <<>> /\ seen = <<>> /\ live = {} /\ dirs = {}
    /\ auto_flush = FALSE /\ par = {}

\* a call of BinOp::apply
ApplyBinOp ==
    /\ evalIn.kind = "apply"
    /\ ~evalOut.done
    /\ evalOut' = [done |-> TRUE, res |-> Apply(evalIn.op, evalIn.left, evalIn.right)]
    /\ UNCHANGED <<evalIn, storeVars, lockVars, wireVars, poolVars, clientVars>>

\* a call of Expr::eval on a row of the columns k, b
EvalExpr ==
    /\ evalIn.kind = "eval"
    /\ ~evalOut.done
    /\ evalOut' = [done |-> TRUE, res |-> Eval(evalIn.expr, evalIn.row, <<"k", "b">>)]
    /\ UNCHANGED <<evalIn, storeVars, lockVars, wireVars, poolVars, clientVars>>

\* CREATE TABLE, INSERT of the rows and then Executor::select of all rows,
\* once in the order given and once as they are collected
SelectOrdered ==
    /\ evalIn.kind = "sort"
    /\ ~evalOut.done
    /\ LET made == insert(NewTable(ExampleCols), <<>>, <<"k", "b">>, evalIn.rows)
       IN  evalOut' = [done |-> TRUE,
                       res  |-> select(made.tbl, made.data, <<Wildcard>>, NoExpr,
                                       evalIn.order_by, evalIn.order).res,
                       got  |-> select(made.tbl, made.data, <<Wildcard>>, NoExpr,
                                       NoOrder, evalIn.order).res]
    /\ UNCHANGED <<evalIn, storeVars, lockVars, wireVars, poolVars, clientVars>>

\* Row::as_disc_bytes of the row under the schema
RowAsDiscBytes ==
    /\ evalIn.kind = "disc"
    /\ evalOut = Pending
    /\ \E pads \in [1..Len(evalIn.row) -> PadSeqs] :
          evalOut' = [done |-> FALSE,
                      enc  |-> row_as_disc_bytes(evalIn.row, evalIn.def, pads)]
    /\ UNCHANGED <<evalIn, storeVars, lockVars, wireVars, poolVars, clientVars>>

\* Row::from_disc_bytes of the bytes written, under the same schema
RowFromDiscBytes ==
    /\ evalIn.kind = "disc"
    /\ ~evalOut.done /\ evalOut # Pending
    /\ evalOut.enc.ok
    /\ evalOut' = [done |-> TRUE, enc |-> evalOut.enc,
                   res  |-> row_from_disc_bytes(evalOut.enc.bytes, evalIn.def)]
    /\ UNCHANGED <<evalIn, storeVars, lockVars, wireVars, poolVars, clientVars>>

NextEval == ApplyBinOp \/ EvalExpr \/ SelectOrdered \/ RowAsDiscBytes
               \/ RowFromDiscBytes

SpecEval == InitEval /\ [][NextEval]_vars

\* C8: a comparison with a Null operand returns Bool(false), except that
\* Null = Null returns Bool(true); it never returns an error.
C8_NullComparisons ==
    ( /\ evalOut.done
      /\ evalIn.kind = "apply"
      /\ evalIn.op \in CompareOps
      /\ (evalIn.left = Null \/ evalIn.right = Null) )
    => evalOut.res = OkLit(BoolLit(evalIn.op = "Eq" /\ evalIn.left = Null
                                                   /\ evalIn.right = Null))

\* C9: a WHERE expression that evaluates to Null at its root makes the row
\* not match, and the SELECT, UPDATE or DELETE does not fail.
C9_NullPredicateIsFalse ==
    [][\A n \in TableNames, o \in KeyOrders :
          ( /\ Locate(n).kind = "Ok"
            /\ \/ Select(n, <<Wildcard>>, Identifier("b"), NoOrder, o)
               \/ Delete(n, Identifier("b"), o)
               \/ Update(n, <<Assignment("b", BoolLit(TRUE))>>, Identifier("b"), o) )
          => result'.kind = "Ok"]_vars

\* the rows of a list whose value in column b is v, in their order
WithKey(rows, v) == SelectSeq(rows, LAMBDA r : r[2] = v)

\* C30: in the rows of SELECT ... ORDER BY b ASC (DESC) any two rows whose
\* values in b are not Null stand in non-decreasing (non-increasing) order
\* of b, also when other rows hold Null in b, and rows with equal values in
\* b keep the order in which they were collected.
C30_OrderByOrdersNonNullRows ==
    (evalOut.done /\ evalIn.kind = "sort") =>
        LET out == evalOut.res.rows
            asc == evalIn.order_by.kind = "Asc"
        IN  /\ evalOut.res.kind = "Ok"
            /\ Len(out) = Len(evalOut.got.rows)
            /\ \A i \in 1..Len(out), j \in 1..Len(out) :
                  (i < j /\ out[i][2] # Null /\ out[j][2] # Null) =>
                      IF asc THEN partial_cmp(out[j][2], out[i][2]) # "Less"
                      ELSE partial_cmp(out[i][2], out[j][2]) # "Less"
            /\ \A v \in {BoolLit(TRUE), BoolLit(FALSE), Null} :
                  WithKey(out, v) = WithKey(evalOut.got.rows, v)

\* the first byte of cell j in the bytes of a row of the schema
CellStart(def, j) == SumSizes(SubSeq(def, 1, j - 1)) + 1

\* C31: for every schema and every row storable in it the encoded row has
\* exactly row_size bytes, the first byte of each cell is 0 exactly when the
\* literal is Null, and decoding the bytes with the same schema returns the
\* original row; this includes the empty string in a Varchar(0).
C31_RowRoundTrip ==
    (evalIn.kind = "disc" /\ RowStorable(evalIn.row, evalIn.def)) =>
        /\ evalOut # Pending =>
              /\ evalOut.enc.ok
              /\ Len(evalOut.enc.bytes) = NewTable(evalIn.def).row_size
              /\ \A j \in 1..Len(evalIn.row) :
                    (evalOut.enc.bytes[CellStart(evalIn.def, j)] = 0)
                        <=> (evalIn.row[j] = Null)
        /\ evalOut.done => evalOut.res = OkRow(evalIn.row)

\* an empty string has been written to a Varchar(0) and a shorter string to
\* a Varchar(2) whose unwritten byte holds 0xFF, and both were read back
C31_Witness ==
    /\ evalIn.kind = "disc" /\ evalOut.done
    /\ evalIn.def = <<ColumnDef("k", DVarchar(0)), ColumnDef("b", DVarchar(2))>>
    /\ evalIn.row = <<VarcharLit(<<>>), VarcharLit(<<97>>)>>
    /\ evalOut.enc.bytes = <<1, 255, 1, 97, 255, 255>>
    /\ evalOut.res.ok

----------------------------------------------------------------------------
(* bongo-server/lib.rs, executor.rs: statements of concurrent connections   *)
(* under the two-level lock.  Every connection is a tokio task that calls    *)
(* Executor::execute on the one shared Executor; a step below is one lock    *)
(* operation or one access to shared state of the statement it executes.     *)

\* the connections, each served by a task of its own
Conns       == {1, 2}
LockTables  == {"A", "B"}
Mutators    == {"Insert", "Update", "Delete"}
TableStmts  == {"Select"} \cup Mutators
SchemaStmts == {"CreateTable", "DropTable", "Flush"}

Job(kind, T) == [kind |-> kind, table |-> T, todo |-> {}]
NoJob        == Job("None", "")

\* RwLock::new
Free == [readers |-> {}, writer |-> 0]

CanReadExclusive(lock) == lock.writer = 0 /\ lock.readers = {}
\* RwLock::read returns once no writer holds the lock
CanRead(lock) == lock.writer = 0

CanWriteUnguarded(lock) == lock.writer = 0
\* RwLock::write returns once nobody holds the lock
CanWrite(lock) == lock.writer = 0 /\ lock.readers = {}

AddReader(lock, c)  == [lock EXCEPT !.readers = @ \cup {c}]
SetWriter(lock, c)  == [lock EXCEPT !.writer = c]
\* dropping the guard a connection holds
Unlock(lock, c)     == [readers |-> lock.readers \ {c},
                        writer  |-> IF lock.writer = c THEN 0 ELSE lock.writer]
Holds(lock, c)      == c \in lock.readers \/ lock.writer = c

InnerModeShared(kind) == "read"
\* select calls table_lock.read(); insert, update and delete call
\* table_lock.write()
InnerMode(kind) == IF kind = "Select" THEN "read" ELSE "write"

\* execute: must_flush

\* the positions at which select, insert, update, delete hold the outer
\* read lock
ReadRegion == {"borrow_set", "inner_acq", "cs", "unborrow_set"}
\* the positions at which create_table, drop_table, flush hold the outer
\* write lock
WriteRegion == {"create_cs", "drop_cs", "flush_next", "flush_ser"}
\* the positions at which a table's inner lock is held and the table's
\* metadata and data file are in use
InnerRegion == {"cs", "flush_ser"}

InitLock ==
    /\ pc = [c \in Conns |-> "idle"]
    /\ job = [c \in Conns |-> NoJob]
    /\ outer = Free
    /\ inner = [T \in LockTables |-> Free]
    /\ flag = [T \in LockTables |-> 0]
    /\ seen = [c \in Conns |-> 0]
    /\ live = {}
    /\ dirs = {}
    /\ auto_flush \in BOOLEAN
    /\ par = {}
    /\ tables = [n \in {} |-> 0]
    /\ disc = [n \in {} |-> 0]
    /\ poisoned = {}
    /\ result = NoResult
    /\ allOk = TRUE
    /\ before = NoSnapshot
    /\ meta = [n \in {} |-> 0]
    /\ open = TRUE
    /\ root = TRUE
    /\ NoWire /\ NoPool /\ NoClient
    /\ evalIn = <<>>
    /\ evalOut = <<>>

\* where execute continues once the statement's handler has returned:
\* with the trailing flush, or with the connection's next request
Return(c) ==
    IF MustFlush(job[c].kind)
    THEN /\ pc' = [pc EXCEPT ![c] = "write_acq"]
         /\ job' = [job EXCEPT ![c] = Job("Flush", "")]
    ELSE /\ pc' = [pc EXCEPT ![c] = "idle"]
         /\ job' = [job EXCEPT ![c] = NoJob]

\* execute: the handler of the parsed statement is entered
Execute(c, kind, T) ==
    /\ pc[c] = "idle"
    /\ job' = [job EXCEPT ![c] = Job(kind, T)]
    /\ pc' = [pc EXCEPT ![c] = IF kind \in {"CreateTable", "Flush"}
                               THEN "write_acq" ELSE "exists_acq"]
    /\ UNCHANGED <<outer, inner, flag, seen, live, dirs, auto_flush, par>>
    /\ UNCHANGED <<storeVars, evalVars, wireVars, poolVars, clientVars>>

\* whether self.tables.read() returns
tables_read_access == CanRead(outer)

\* whether self.tables.write() returns
tables_write_access == CanWrite(outer)

\* table_exists_in_cache: the lookup under a read guard that is dropped on
\* return
table_exists_in_cache(c) ==
    /\ pc[c] = "exists_acq"
    /\ tables_read_access
    /\ IF job[c].table \in live
       THEN pc' = [pc EXCEPT ![c] = "dir_check"] /\ job' = job
       ELSE Return(c)
    /\ UNCHANGED <<outer, inner, flag, seen, live, dirs, auto_flush, par>>
    /\ UNCHANGED <<storeVars, evalVars, wireVars, poolVars, clientVars>>

\* get_table_dir_if_exists: path.is_dir(), with no lock held
get_table_dir_if_exists(c) ==
    /\ pc[c] = "dir_check"
    /\ IF job[c].table \in dirs
       THEN /\ pc' = [pc EXCEPT ![c] = IF job[c].kind = "DropTable"
                                       THEN "write_acq" ELSE "read_acq"]
            /\ job' = job
       ELSE Return(c)
    /\ UNCHANGED <<outer, inner, flag, seen, live, dirs, auto_flush, par>>
    /\ UNCHANGED <<storeVars, evalVars, wireVars, poolVars, clientVars>>

\* select, insert, update, delete: self.tables_read_access()?, then
\* tables.get(&table).unwrap(), then cell.borrow() / cell.borrow_mut() reads
\* the borrow flag of the RefCell.  The flag is a plain Cell shared by all
\* tasks (unsafe impl Sync for Executor), so other tasks may change it before
\* the reading one writes it.
GetCell(c) ==
    /\ pc[c] = "read_acq"
    /\ tables_read_access
    /\ IF job[c].table \in live
       THEN /\ outer' = AddReader(outer, c)
            /\ seen' = [seen EXCEPT ![c] = flag[job[c].table]]
            /\ pc' = [pc EXCEPT ![c] = "borrow_set"]
       ELSE /\ pc' = [pc EXCEPT ![c] = "unwrap_panic"]
            /\ UNCHANGED <<outer, seen>>
    /\ UNCHANGED <<job, inner, flag, live, dirs, auto_flush, par>>
    /\ UNCHANGED <<storeVars, evalVars, wireVars, poolVars, clientVars>>

\* whether the RefCell grants a borrow when the flag read is b, and the flag
\* value the borrow then writes
BorrowFlag(kind, b) ==
    IF kind = "Select"
    THEN [ok |-> b + 1 > 0, b |-> b + 1]
    ELSE [ok |-> b = 0, b |-> 0 - 1]

\* cell.borrow() / cell.borrow_mut(): the flag is written, or the task
\* panics with "already (mutably) borrowed" and unwinds
BorrowSet(c) ==
    /\ pc[c] = "borrow_set"
    /\ LET new == BorrowFlag(job[c].kind, seen[c])
       IN IF ~new.ok
          THEN /\ pc' = [pc EXCEPT ![c] = "borrow_panic"]
               /\ outer' = Unlock(outer, c)
               /\ flag' = flag
          ELSE /\ new.b <= FlagCap
               /\ flag' = [flag EXCEPT ![job[c].table] = new.b]
               /\ pc' = [pc EXCEPT ![c] = "inner_acq"]
               /\ outer' = outer
    /\ seen' = [seen EXCEPT ![c] = 0]
    /\ UNCHANGED <<job, inner, live, dirs, auto_flush, par>>
    /\ UNCHANGED <<storeVars, evalVars, wireVars, poolVars, clientVars>>

\* whether table_lock.read() / table_lock.write() of connection c returns
CanLockTable(c) ==
    IF InnerMode(job[c].kind) = "read"
    THEN CanRead(inner[job[c].table])
    ELSE CanWrite(inner[job[c].table])

\* the kinds of parallel execution that begin when c enters its critical
\* section
Parallel(c) ==
    {"selects" : d \in {d \in Conns \ {c} :
                         /\ pc[d] = "cs"
                         /\ job[d].table = job[c].table
                         /\ job[d].kind = "Select"
                         /\ job[c].kind = "Select"}}
    \cup
    {"mutations" : d \in {d \in Conns \ {c} :
                         /\ pc[d] = "cs"
                         /\ job[d].table # job[c].table
                         /\ job[d].kind \in Mutators
                         /\ job[c].kind \in Mutators}}

\* table_lock.read() in select, table_lock.write() in insert, update, delete
LockTable(c) ==
    /\ pc[c] = "inner_acq"
    /\ CanLockTable(c)
    /\ inner' = [inner EXCEPT ![job[c].table] =
                    IF InnerMode(job[c].kind) = "read"
                    THEN AddReader(@, c) ELSE SetWriter(@, c)]
    /\ par' = par \cup Parallel(c)
    /\ pc' = [pc EXCEPT ![c] = "cs"]
    /\ UNCHANGED <<job, outer, flag, seen, live, dirs, auto_flush>>
    /\ UNCHANGED <<storeVars, evalVars, wireVars, poolVars, clientVars>>

\* the body of select, insert, update, delete works on the table's metadata
\* and data file; on return the guard `table` is dropped first, and the drop
\* of `table_lock` (the Ref / RefMut) reads the borrow flag
Body(c) ==
    /\ pc[c] = "cs"
    /\ inner' = [inner EXCEPT ![job[c].table] = Unlock(@, c)]
    /\ seen' = [seen EXCEPT ![c] = flag[job[c].table]]
    /\ pc' = [pc EXCEPT ![c] = "unborrow_set"]
    /\ UNCHANGED <<job, outer, flag, live, dirs, auto_flush, par>>
    /\ UNCHANGED <<storeVars, evalVars, wireVars, poolVars, clientVars>>

\* the drop of `table_lock` writes the flag back, one less for a Ref and one
\* more for a RefMut; last the guard `tables` is dropped and execute goes on
Unborrow(c) ==
    /\ pc[c] = "unborrow_set"
    /\ LET b == IF job[c].kind = "Select" THEN seen[c] - 1 ELSE seen[c] + 1
       IN /\ b <= FlagCap /\ b >= 0 - FlagCap
          /\ flag' = [flag EXCEPT ![job[c].table] = b]
    /\ seen' = [seen EXCEPT ![c] = 0]
    /\ outer' = Unlock(outer, c)
    /\ Return(c)
    /\ UNCHANGED <<inner, live, dirs, auto_flush, par>>
    /\ UNCHANGED <<storeVars, evalVars, wireVars, poolVars, clientVars>>

\* create_table, drop_table, flush: self.tables_write_access()?; flush then
\* iterates over the tables of the map
WriteAccess(c) ==
    /\ pc[c] = "write_acq"
    /\ tables_write_access
    /\ outer' = SetWriter(outer, c)
    /\ pc' = [pc EXCEPT ![c] = CASE job[c].kind = "CreateTable" -> "create_cs"
                                 [] job[c].kind = "DropTable"   -> "drop_cs"
                                 [] OTHER                       -> "flush_next"]
    /\ job' = [job EXCEPT ![c].todo = IF job[c].kind = "Flush" THEN live ELSE {}]
    /\ UNCHANGED <<inner, flag, seen, live, dirs, auto_flush, par>>
    /\ UNCHANGED <<storeVars, evalVars, wireVars, poolVars, clientVars>>

\* create_table under the write guard, which is dropped on return
create_table(c) ==
    /\ pc[c] = "create_cs"
    /\ LET T == job[c].table
       IN IF T \in live \/ T \in dirs
          THEN UNCHANGED <<live, dirs, inner, flag>>
          ELSE /\ dirs' = dirs \cup {T}
               /\ live' = live \cup {T}
               /\ inner' = [inner EXCEPT ![T] = Free]
               /\ flag' = [flag EXCEPT ![T] = 0]
    /\ outer' = Unlock(outer, c)
    /\ Return(c)
    /\ UNCHANGED <<seen, auto_flush, par>>
    /\ UNCHANGED <<storeVars, evalVars, wireVars, poolVars, clientVars>>

\* drop_table under the write guard: fs::remove_dir_all(&path), then
\* tables.remove(&name).unwrap(); the guard is dropped on return
drop_table(c) ==
    /\ pc[c] = "drop_cs"
    /\ LET T == job[c].table
       IN IF T \notin dirs
          THEN Return(c) /\ UNCHANGED <<live, dirs>>
          ELSE /\ dirs' = dirs \ {T}
               /\ IF T \in live
                  THEN live' = live \ {T} /\ Return(c)
                  ELSE /\ live' = live
                       /\ pc' = [pc EXCEPT ![c] = "unwrap_panic"]
                       /\ job' = job
    /\ outer' = Unlock(outer, c)
    /\ UNCHANGED <<inner, flag, seen, auto_flush, par>>
    /\ UNCHANGED <<storeVars, evalVars, wireVars, poolVars, clientVars>>

\* flush: the next table of the iteration is serialized; serde borrows the
\* RefCell (try_borrow) and takes the table's read lock for that.  When the
\* iteration is over, or fails, the write guard is dropped.
FlushNext(c) ==
    /\ pc[c] = "flush_next"
    /\ IF job[c].todo = {}
       THEN /\ outer' = Unlock(outer, c)
            /\ Return(c)
            /\ inner' = inner
       ELSE \E T \in job[c].todo :
               IF flag[T] + 1 > 0
               THEN /\ CanRead(inner[T])
                    /\ inner' = [inner EXCEPT ![T] = AddReader(@, c)]
                    /\ job' = [job EXCEPT ![c].table = T]
                    /\ pc' = [pc EXCEPT ![c] = "flush_ser"]
                    /\ outer' = outer
               ELSE /\ outer' = Unlock(outer, c)
                    /\ Return(c)
                    /\ inner' = inner
    /\ UNCHANGED <<flag, seen, live, dirs, auto_flush, par>>
    /\ UNCHANGED <<storeVars, evalVars, wireVars, poolVars, clientVars>>

\* flush: the metadata has been encoded and serde's guards are dropped; the
\* table's meta file is replaced
FlushWrite(c) ==
    /\ pc[c] = "flush_ser"
    /\ inner' = [inner EXCEPT ![job[c].table] = Unlock(@, c)]
    /\ IF job[c].table \in dirs
       THEN /\ job' = [job EXCEPT ![c].todo = @ \ {job[c].table}, ![c].table = ""]
            /\ pc' = [pc EXCEPT ![c] = "flush_next"]
            /\ outer' = outer
       ELSE /\ outer' = Unlock(outer, c)
            /\ Return(c)
    /\ UNCHANGED <<flag, seen, live, dirs, auto_flush, par>>
    /\ UNCHANGED <<storeVars, evalVars, wireVars, poolVars, clientVars>>

NextLock ==
    \/ \E c \in Conns, kind \in TableStmts \cup {"CreateTable", "DropTable"},
          T \in LockTables : Execute(c, kind, T)
    \/ \E c \in Conns : Execute(c, "Flush", "")
    \/ \E c \in Conns : table_exists_in_cache(c)
    \/ \E c \in Conns : get_table_dir_if_exists(c)
    \/ \E c \in Conns : GetCell(c)
    \/ \E c \in Conns : BorrowSet(c)
    \/ \E c \in Conns : LockTable(c)
    \/ \E c \in Conns : Body(c)
    \/ \E c \in Conns : Unborrow(c)
    \/ \E c \in Conns : WriteAccess(c)
    \/ \E c \in Conns : create_table(c)
    \/ \E c \in Conns : drop_table(c)
    \/ \E c \in Conns : FlushNext(c)
    \/ \E c \in Conns : FlushWrite(c)

SpecLock == InitLock /\ [][NextLock]_vars

\* the steps a connection's task takes once execute has entered a handler
Step(c) ==
    \/ table_exists_in_cache(c) \/ get_table_dir_if_exists(c) \/ GetCell(c)
    \/ BorrowSet(c) \/ LockTable(c) \/ Body(c) \/ Unborrow(c)
    \/ WriteAccess(c) \/ create_table(c) \/ drop_table(c)
    \/ FlushNext(c) \/ FlushWrite(c)

\* fair scheduling and terminating I/O: a task that can take a step again
\* and again, be it the acquisition of a lock that is free again and again,
\* takes it at last
FairLock == \A c \in Conns : SF_vars(Step(c))

SpecLockFair == SpecLock /\ FairLock

\* C4: an Insert, Update or Delete on table T is never inside its critical
\* section together with any other Select, Insert, Update or Delete on T, and
\* whoever works on T's metadata or data file holds T's inner lock.
C4_MutationsExclusive ==
    \A c \in Conns :
        pc[c] \in InnerRegion =>
            /\ Holds(inner[job[c].table], c)
            /\ job[c].kind \in Mutators =>
                   \A d \in Conns \ {c} :
                       ~(pc[d] \in InnerRegion /\ job[d].table = job[c].table)

\* a mutation is inside its critical section while another statement on the
\* same table waits for the table's inner lock
C4_Witness ==
    \E c \in Conns, d \in Conns :
        /\ c # d
        /\ pc[c] = "cs" /\ job[c].kind \in Mutators
        /\ pc[d] = "inner_acq" /\ job[d].table = job[c].table

\* C5: a statement on a table on which another statement is executing blocks
\* and then executes normally; contention never makes it abort.
C5_ContentionNeverAborts ==
    \A c \in Conns : pc[c] # "borrow_panic"

\* C36: a Select, Insert, Update or Delete on table T that races with a
\* DropTable of T either executes against the table, which still exists, or
\* returns the error that the table does not exist: the entry that
\* get_table_dir_if_exists has found is still in the map when the statement
\* looks it up under the outer read lock, so that lookup never fails.
C36_CheckedEntryStillPresent ==
    \A c \in Conns :
        job[c].kind \in TableStmts => pc[c] # "unwrap_panic"

\* C37: under any interleaving of the statements of the connections, with
\* fair scheduling and terminating I/O, every statement that has begun
\* releases all locks it has acquired and returns at last; the two-level
\* lock discipline cannot deadlock.
C37_EveryStatementReturns ==
    \A c \in Conns :
        (pc[c] # "idle") ~> (pc[c] = "idle" /\ ~Holds(outer, c)
                               /\ \A T \in LockTables : ~Holds(inner[T], c))

\* C6: while a CreateTable, DropTable or Flush holds the outer write lock, no
\* other statement is at a position where it uses the table map, a table's
\* metadata or a meta file.
C6_SchemaStatementsExclusive ==
    \A c \in Conns :
        pc[c] \in WriteRegion =>
            /\ outer.writer = c
            /\ \A d \in Conns \ {c} : pc[d] \notin ReadRegion \cup WriteRegion

\* a Flush serializes a table under the outer write lock while another
\* connection's statement waits for the outer lock
C6_Witness ==
    \E c \in Conns, d \in Conns :
        /\ c # d
        /\ pc[c] = "flush_ser"
        /\ pc[d] \in {"exists_acq", "read_acq", "write_acq"}

\* whether a statement that holds, or is about to take, the outer lock or the
\* inner lock of c's table is one that c's statement has to wait for
NoConflict(c) ==
    /\ \A d \in Conns \ {c} : pc[d] \notin WriteRegion
    /\ \A d \in Conns \ {c} :
          (pc[d] \in InnerRegion /\ job[d].table = job[c].table)
              => (job[c].kind = "Select" /\ job[d].kind = "Select")

\* C7: the lock discipline admits parallelism: a Select is never kept from
\* its critical section by Selects on the same table, nor a mutation by
\* statements on other tables; both kinds of parallel execution occur.
C7_DisciplineAdmitsParallelism ==
    \A c \in Conns :
        /\ (pc[c] = "read_acq" /\ NoConflict(c)) => tables_read_access
        /\ (pc[c] = "inner_acq" /\ NoConflict(c)) => CanLockTable(c)

\* two Selects on one table have been inside their critical sections together,
\* and so have mutations on two different tables
C7_Witness ==
    par = {"selects", "mutations"}

----------------------------------------------------------------------------
(* SpecWire: the connections of the Webserver and their clients *)

\* the connections Webserver::start has accepted, one spawned task each
Sockets == {1, 2}

\* u32::to_be_bytes of a length below 2^31
to_be_bytes(n) ==
    <<(n \div 16777216) % 256, (n \div 65536) % 256, (n \div 256) % 256, n % 256>>

\* i32::from_be_bytes
from_be_bytes(b) ==
    (IF b[1] >= 128 THEN b[1] - 256 ELSE b[1]) * 16777216
        + b[2] * 65536 + b[3] * 256 + b[4]

\* payloads a client sends: two requests, a text that is no request and
\* bytes that are not UTF-8
ReqA     == <<97>>
ReqB     == <<98>>
NoJson   == <<0>>
NoUtf8   == <<255>>
Payloads == {ReqA, ReqB, NoJson, NoUtf8}

\* a header that announces 2^31 bytes, half a header, and a header that
\* announces two bytes followed by one
RawBytes == {<<128, 0, 0, 0>>, <<0, 0>>, <<0, 0, 0, 2, 97>>}

\* a request frame: the length of the payload, then the payload
Frame(p) == to_be_bytes(Len(p)) \o p

\* BongoRequestParser::parse: String::from_utf8(..).unwrap() panics on bytes
\* that are not UTF-8, serde_json::from_str decides between Some and None
parse(bytes) ==
    IF \E j \in 1..Len(bytes) : bytes[j] >= 128 THEN [kind |-> "Panic", sql |-> <<>>]
    ELSE IF bytes = <<>> \/ bytes[1] = 0 THEN [kind |-> "None", sql |-> <<>>]
    ELSE [kind |-> "Some", sql |-> bytes]

\* the handle_request closure of BongoServer::start_new when execute returns:
\* the JSON text of the result of request.sql
handle_request(request) == <<123>> \o request.sql \o <<125>>

\* "Request format could not be parsed, request is ignored."
NotParsed == [j \in 1..55 |-> 46]

InitWire ==
    /\ inbox = [c \in Sockets |-> <<>>]
    /\ eof = [c \in Sockets |-> FALSE]
    /\ wpc = [c \in Sockets |-> "header"]
    /\ size = [c \in Sockets |-> 0]
    /\ reqs = [c \in Sockets |-> <<>>]
    /\ outbox = [c \in Sockets |-> <<>>]
    /\ sends = 0
    /\ NoPool /\ NoClient
    /\ tables = [n \in {} |-> 0]
    /\ disc = [n \in {} |-> 0]
    /\ meta = [n \in {} |-> 0]
    /\ open = TRUE
    /\ root = TRUE
    /\ poisoned = {}
    /\ result = NoResult
    /\ allOk = TRUE
    /\ before = NoSnapshot
    /\ evalIn = <<>>
    /\ evalOut = <<>>
    /\ pc = <<>> /\ job = <<>> /\ outer = <<>> /\ inner = <<>>
    /\ flag = <<>> /\ seen = <<>> /\ live = {} /\ dirs = {}
    /\ auto_flush = FALSE /\ par = {}

\* the client of connection c writes bytes to it
Send(c, bytes) ==
    /\ ~eof[c]
    /\ sends < MaxSends
    /\ sends' = sends + 1
    /\ inbox' = [inbox EXCEPT ![c] = @ \o bytes]
    /\ UNCHANGED <<eof, wpc, size, reqs, outbox, storeVars, evalVars, lockVars, poolVars, clientVars>>

\* the client of connection c closes it
Hangup(c) ==
    /\ ~eof[c]
    /\ eof' = [eof EXCEPT ![c] = TRUE]
    /\ UNCHANGED <<inbox, wpc, size, reqs, outbox, sends, storeVars, evalVars, lockVars, poolVars, clientVars>>

\* handle_connection: reader.read_exact(&mut size), i32::from_be_bytes and
\* Vec::with_capacity(size as usize), which panics on a negative size; a
\* failed read breaks the loop
ReadHeader(c) ==
    /\ wpc[c] = "header"
    /\ IF Len(inbox[c]) >= 4
       THEN LET n == from_be_bytes(SubSeq(inbox[c], 1, 4))
            IN  /\ size' = [size EXCEPT ![c] = n]
                /\ inbox' = [inbox EXCEPT ![c] = SubSeq(@, 5, Len(@))]
                /\ wpc' = [wpc EXCEPT ![c] = IF n < 0 THEN "aborted" ELSE "payload"]
       ELSE /\ eof[c]
            /\ inbox' = [inbox EXCEPT ![c] = <<>>]
            /\ wpc' = [wpc EXCEPT ![c] = "no_header"]
            /\ UNCHANGED size
    /\ UNCHANGED <<eof, reqs, outbox, sends, storeVars, evalVars, lockVars, poolVars, clientVars>>

\* a server that answers a request whose payload never arrived in full
ReadPayloadAnswering(c) ==
    /\ wpc[c] = "payload"
    /\ IF Len(inbox[c]) >= size[c]
       THEN /\ reqs' = [reqs EXCEPT ![c] = Append(@, SubSeq(inbox[c], 1, size[c]))]
            /\ inbox' = [inbox EXCEPT ![c] = SubSeq(@, size[c] + 1, Len(@))]
            /\ wpc' = [wpc EXCEPT ![c] = "handle"]
            /\ UNCHANGED outbox
       ELSE /\ eof[c]
            /\ inbox' = [inbox EXCEPT ![c] = <<>>]
            /\ wpc' = [wpc EXCEPT ![c] = "no_payload"]
            /\ outbox' = [outbox EXCEPT ![c] =
                            Append(@, to_be_bytes(Len(NotParsed)) \o NotParsed)]
            /\ UNCHANGED reqs
    /\ UNCHANGED <<eof, size, sends, storeVars, evalVars, lockVars, poolVars, clientVars>>

\* handle_connection: reader.read_exact(&mut buffer); a failed read breaks
\* the loop
ReadPayload(c) ==
    /\ wpc[c] = "payload"
    /\ IF Len(inbox[c]) >= size[c]
       THEN /\ reqs' = [reqs EXCEPT ![c] = Append(@, SubSeq(inbox[c], 1, size[c]))]
            /\ inbox' = [inbox EXCEPT ![c] = SubSeq(@, size[c] + 1, Len(@))]
            /\ wpc' = [wpc EXCEPT ![c] = "handle"]
       ELSE /\ eof[c]
            /\ inbox' = [inbox EXCEPT ![c] = <<>>]
            /\ wpc' = [wpc EXCEPT ![c] = "no_payload"]
            /\ UNCHANGED reqs
    /\ UNCHANGED <<eof, size, outbox, sends, storeVars, evalVars, lockVars, poolVars, clientVars>>

\* handle_connection: parse, handle_request and write_all of the length of
\* the response and the response; a panic of the parser or of execute ends
\* the connection's task
Respond(c, panics) ==
    /\ wpc[c] = "handle"
    /\ LET request  == parse(reqs[c][Len(reqs[c])])
           response == IF request.kind = "Some" THEN handle_request(request)
                       ELSE NotParsed
       IN  IF request.kind = "Panic" \/ (request.kind = "Some" /\ panics)
           THEN wpc' = [wpc EXCEPT ![c] = "aborted"] /\ UNCHANGED outbox
           ELSE /\ outbox' = [outbox EXCEPT ![c] =
                                Append(@, to_be_bytes(Len(response)) \o response)]
                /\ wpc' = [wpc EXCEPT ![c] = "header"]
    /\ UNCHANGED <<inbox, eof, size, reqs, sends, storeVars, evalVars, lockVars, poolVars, clientVars>>

NextWire ==
    \/ \E c \in Sockets, p \in Payloads : Send(c, Frame(p))
    \/ \E c \in Sockets, b \in RawBytes : Send(c, b)
    \/ \E c \in Sockets : Hangup(c)
    \/ \E c \in Sockets : ReadHeader(c)
    \/ \E c \in Sockets : ReadPayload(c)
    \/ \E c \in Sockets, panics \in BOOLEAN : Respond(c, panics)

SpecWire == InitWire /\ [][NextWire]_vars

\* what the server owes the client for a request payload
Answer(req) ==
    IF parse(req).kind = "Some" THEN handle_request(parse(req)) ELSE NotParsed

\* C20: on one connection the k-th response frame is the result of the k-th
\* request frame, request k+1 is not read before response k is written, and
\* every complete request frame gets exactly one response frame, whose first
\* four bytes are the big-endian length of the rest.
C20_OneResponsePerRequestInOrder ==
    \A c \in Sockets :
        /\ Len(outbox[c]) <= Len(reqs[c])
        /\ Len(reqs[c]) <= Len(outbox[c]) + 1
        /\ wpc[c] # "handle" => Len(outbox[c]) = Len(reqs[c])
        /\ \A k \in 1..Len(outbox[c]) :
              /\ SubSeq(outbox[c][k], 5, Len(outbox[c][k])) = Answer(reqs[c][k])
              /\ SubSeq(outbox[c][k], 1, 4) = to_be_bytes(Len(outbox[c][k]) - 4)

\* the wire state of connection c
Wire(c) == <<inbox[c], eof[c], wpc[c], size[c], reqs[c], outbox[c]>>

\* a read of connection c is about to fail in the middle of a frame
Truncated(c) ==
    /\ eof[c]
    /\ \/ wpc[c] = "header" /\ Len(inbox[c]) \in 1..3
       \/ wpc[c] = "payload" /\ Len(inbox[c]) < size[c]

\* C21: when a connection ends before the four header bytes, or before the
\* announced payload bytes, have arrived, its task leaves the read loop
\* without writing a response frame for the partial request, writes nothing
\* afterwards, and the other connections are left as they are.
C21_TruncatedFrameEndsLoopSilently ==
    [][\A c \in Sockets :
          /\ (Truncated(c) /\ Wire(c)' # Wire(c)) =>
                /\ wpc'[c] \in {"no_header", "no_payload"}
                /\ outbox'[c] = outbox[c]
                /\ reqs'[c] = reqs[c]
                /\ \A d \in Sockets \ {c} : Wire(d)' = Wire(d)
          /\ wpc[c] \in {"no_header", "no_payload"} => Wire(c)' = Wire(c)]_vars

\* a connection has ended inside a payload, another has ended inside a
\* header after a complete exchange, and both have left the loop
C21_Witness ==
    \E c \in Sockets : \E d \in Sockets \ {c} :
        /\ wpc[c] = "no_payload" /\ size[c] = 2
        /\ wpc[d] = "no_header" /\ Len(outbox[d]) = 1 /\ sends = MaxSends

\* C22: a complete request frame whose payload is not UTF-8, or is text but
\* no JSON object with a string field "sql", is answered with the fixed
\* 'Request format could not be parsed' frame, and the connection's task goes
\* on: once the handler has acted on such a request, its response is there.
C22_UnparsableRequestGetsFixedResponse ==
    \A c \in Sockets : \A k \in 1..Len(reqs[c]) :
        (parse(reqs[c][k]).kind # "Some" /\ (k < Len(reqs[c]) \/ wpc[c] # "handle"))
            => /\ k <= Len(outbox[c])
               /\ SubSeq(outbox[c][k], 5, Len(outbox[c][k])) = NotParsed

\* the most significant byte and the remaining 24 bits of a length
HighByte(n) == n \div 16777216
LowBytes(n) == n % 16777216

\* C23: the four bytes of a request header are read as an unsigned
\* big-endian number n, also when the first byte is 128 or more, and the
\* task then reads exactly n payload bytes as the request.
C23_HeaderIsUnsignedLength ==
    [][\A c \in Sockets :
          /\ (wpc[c] = "header" /\ Len(inbox[c]) >= 4 /\ wpc'[c] # "header") =>
                /\ wpc'[c] = "payload"
                /\ size'[c] >= 0
                /\ HighByte(size'[c]) = inbox[c][1]
                /\ LowBytes(size'[c]) =
                      inbox[c][2] * 65536 + inbox[c][3] * 256 + inbox[c][4]
          /\ (wpc[c] = "payload" /\ wpc'[c] = "handle") =>
                /\ Len(reqs'[c]) = Len(reqs[c]) + 1
                /\ reqs'[c][Len(reqs'[c])] = SubSeq(inbox[c], 1, size[c])
                /\ Len(inbox'[c]) = Len(inbox[c]) - size[c]]_vars

----------------------------------------------------------------------------
(* SpecPool: bongo-server/archive/thread_pool.rs, a ThreadPool, the jobs it
   is given and its drop *)

PoolSize == 2      \* ThreadPool::new(size)
MaxJobs  == 3      \* ThreadPool::execute is called at most this often

\* the worker threads ThreadPool::new spawns, in the order of the vector
Workers == 1..PoolSize

\* WorkerMessage; a job is named by its place in the order of submission,
\* and its function returns or panics
NewJob(j, panics) == [kind |-> "NewJob", id |-> j, panics |-> panics]
Terminate         == [kind |-> "Terminate", id |-> 0, panics |-> FALSE]

\* the Receiver lives in an Arc of which every worker thread holds a clone
\* until it ends: Sender::send fails once none is left
ReceiverDropped == \A w \in Workers : worker[w].pc \in {"exited", "panicked"}

\* the Sender is a field of the ThreadPool: it is dropped when drop has
\* returned or the owning thread unwinds
SenderDropped == pool.pc \in {"dropped", "panicked"}

InitPool ==
    /\ channel = <<>>
    /\ mutex = [holder |-> 0, poisoned |-> FALSE]
    /\ worker = [w \in Workers |-> [pc |-> "lock", job |-> Terminate]]
    /\ pool = [pc |-> "running", submitted |-> 0, sent |-> 0, joined |-> 0]
    /\ taken = <<>>
    /\ finished = {}
    /\ tables = [n \in {} |-> 0]
    /\ disc = [n \in {} |-> 0]
    /\ poisoned = {}
    /\ result = NoResult
    /\ allOk = TRUE
    /\ before = NoSnapshot
    /\ meta = [n \in {} |-> 0]
    /\ open = TRUE
    /\ root = TRUE
    /\ NoWire /\ NoClient
    /\ evalIn = <<>> /\ evalOut = <<>>
    /\ pc = <<>> /\ job = <<>> /\ outer = <<>> /\ inner = <<>>
    /\ flag = <<>> /\ seen = <<>> /\ live = {} /\ dirs = {}
    /\ auto_flush = FALSE /\ par = {}

OtherVars == <<storeVars, evalVars, lockVars, wireVars, clientVars>>

\* ThreadPool::execute: self.sender.send(job).unwrap()
PoolExecute(panics) ==
    /\ pool.pc = "running"
    /\ pool.submitted < MaxJobs
    /\ IF ReceiverDropped
       THEN /\ pool' = [pool EXCEPT !.pc = "panicked"]
            /\ UNCHANGED channel
       ELSE /\ channel' = Append(channel, NewJob(pool.submitted + 1, panics))
            /\ pool' = [pool EXCEPT !.submitted = @ + 1]
    /\ UNCHANGED <<mutex, worker, taken, finished, OtherVars>>

\* the ThreadPool goes out of scope: drop begins
Drop ==
    /\ pool.pc = "running"
    /\ pool' = [pool EXCEPT !.pc = "terminating"]
    /\ UNCHANGED <<channel, mutex, worker, taken, finished, OtherVars>>

\* drop: self.sender.send(WorkerMessage::Terminate).unwrap(), once per worker
SendTerminate ==
    /\ pool.pc = "terminating"
    /\ IF ReceiverDropped
       THEN /\ pool' = [pool EXCEPT !.pc = "panicked"]
            /\ UNCHANGED channel
       ELSE /\ channel' = Append(channel, Terminate)
            /\ pool' = [pool EXCEPT !.sent = @ + 1,
                                    !.pc = IF pool.sent + 1 = PoolSize
                                           THEN "joining" ELSE "terminating"]
    /\ UNCHANGED <<mutex, worker, taken, finished, OtherVars>>

\* drop: thread.join().unwrap() of the next worker of the vector, which
\* blocks until that thread has ended
Join ==
    /\ pool.pc = "joining"
    /\ LET w == pool.joined + 1
       IN  /\ worker[w].pc \in {"exited", "panicked"}
           /\ pool' = IF worker[w].pc = "panicked"
                      THEN [pool EXCEPT !.pc = "panicked"]
                      ELSE [pool EXCEPT !.joined = w,
                                        !.pc = IF w = PoolSize THEN "dropped"
                                               ELSE "joining"]
    /\ UNCHANGED <<channel, mutex, worker, taken, finished, OtherVars>>

\* Worker::new, the loop: receiver.lock().unwrap()
WorkerLock(w) ==
    /\ worker[w].pc = "lock"
    /\ mutex.holder = 0
    /\ IF mutex.poisoned
       THEN /\ worker' = [worker EXCEPT ![w].pc = "panicked"]
            /\ UNCHANGED mutex
       ELSE /\ mutex' = [mutex EXCEPT !.holder = w]
            /\ worker' = [worker EXCEPT ![w].pc = "recv"]
    /\ UNCHANGED <<channel, pool, taken, finished, OtherVars>>

\* Worker::new, the loop: .recv().unwrap() under the guard, which is dropped
\* at the end of the let statement.  recv returns the oldest message, blocks
\* while there is none, and fails when there is none and the Sender is gone.
WorkerRecv(w) ==
    /\ worker[w].pc = "recv"
    /\ IF channel # <<>>
       THEN /\ channel' = Tail(channel)
            /\ mutex' = [mutex EXCEPT !.holder = 0]
            /\ IF Head(channel).kind = "NewJob"
               THEN /\ worker' = [worker EXCEPT ![w] = [pc |-> "run", job |-> Head(channel)]]
                    /\ taken' = Append(taken, <<Head(channel).id, w>>)
               ELSE /\ worker' = [worker EXCEPT ![w].pc = "exited"]
                    /\ UNCHANGED taken
       ELSE /\ SenderDropped
            /\ mutex' = [holder |-> 0, poisoned |-> TRUE]
            /\ worker' = [worker EXCEPT ![w].pc = "panicked"]
            /\ UNCHANGED <<channel, taken>>
    /\ UNCHANGED <<pool, finished, OtherVars>>

\* Worker::new, the loop: func() returns and the loop goes on, or it panics
\* and the thread ends
WorkerRun(w) ==
    /\ worker[w].pc = "run"
    /\ IF worker[w].job.panics
       THEN /\ worker' = [worker EXCEPT ![w].pc = "panicked"]
            /\ UNCHANGED finished
       ELSE /\ worker' = [worker EXCEPT ![w].pc = "lock"]
            /\ finished' = finished \cup {worker[w].job.id}
    /\ UNCHANGED <<channel, mutex, pool, taken, OtherVars>>

NextPool ==
    \/ \E panics \in BOOLEAN : PoolExecute(panics)
    \/ Drop
    \/ SendTerminate
    \/ Join
    \/ \E w \in Workers : WorkerLock(w)
    \/ \E w \in Workers : WorkerRecv(w)
    \/ \E w \in Workers : WorkerRun(w)

SpecPool == InitPool /\ [][NextPool]_vars

\* every thread is scheduled again and again: a worker that can go on does,
\* and so does a drop that has begun
FairPool ==
    /\ \A w \in Workers : WF_vars(WorkerLock(w) \/ WorkerRecv(w) \/ WorkerRun(w))
    /\ WF_vars(SendTerminate \/ Join)

SpecPoolFair == SpecPool /\ FairPool

\* the workers that have received job j
Receivers(j) == {k \in 1..Len(taken) : taken[k][1] = j}

\* C33: every job passed to ThreadPool::execute is picked up and executed by
\* exactly one worker thread, never by none and never by two, and the jobs
\* are taken from the channel in the order of their submission.
C33_EachJobRunByOneWorker ==
    /\ [](\A j \in 1..MaxJobs : Cardinality(Receivers(j)) <= 1)
    /\ [](\A k \in 1..Len(taken) : taken[k][1] = k)
    /\ \A j \in 1..MaxJobs :
          (pool.submitted >= j) ~> (Cardinality(Receivers(j)) = 1)

\* C34: dropping a ThreadPool terminates, provided every job terminates:
\* every job submitted before the drop finishes executing, every worker
\* receives one Terminate message and leaves its loop, and drop returns
\* after all workers have been joined.
C34_DropTerminates ==
    (pool.pc = "terminating") ~>
        ( /\ pool.pc = "dropped"
          /\ pool.joined = PoolSize /\ pool.sent = PoolSize
          /\ \A w \in Workers : worker[w].pc = "exited"
          /\ channel = <<>>
          /\ finished = 1..pool.submitted )

----------------------------------------------------------------------------
(* SpecClient: bongo-lib/connection.rs, the client's query_raw reading the
   responses the Webserver writes *)

BufLen     == 6    \* the length of query_raw's read buffer, 1024 in the source
MaxQueries == 2    \* query_raw is called at most this often

\* the responses the server writes (every byte is below 128)
ResponsePayloads ==
    { <<>>, <<97>>, <<97, 98, 99>>, <<97, 98, 99, 100, 101, 102, 103, 104>> }

\* u32::from_be_bytes of four bytes of which the first is below 128
u32_from_be_bytes(b) == b[1] * 16777216 + b[2] * 65536 + b[3] * 256 + b[4]

\* the buffer `buf` after a read of the bytes got into [0; 1024]
Buffered(got) == got \o [j \in 1..(BufLen - Len(got)) |-> 0]

Idle == [pc |-> "idle", total_bytes_read |-> 0, response_length |-> 0,
         response |-> <<>>]

InitClient ==
    /\ stream = <<>>
    /\ query = Idle
    /\ responses = <<>>
    /\ returned = <<>>
    /\ tables = [n \in {} |-> 0]
    /\ disc = [n \in {} |-> 0]
    /\ poisoned = {}
    /\ result = NoResult
    /\ allOk = TRUE
    /\ before = NoSnapshot
    /\ meta = [n \in {} |-> 0]
    /\ open = TRUE
    /\ root = TRUE
    /\ NoWire /\ NoPool
    /\ evalIn = <<>> /\ evalOut = <<>>
    /\ pc = <<>> /\ job = <<>> /\ outer = <<>> /\ inner = <<>>
    /\ flag = <<>> /\ seen = <<>> /\ live = {} /\ dirs = {}
    /\ auto_flush = FALSE /\ par = {}

NoClientVars == <<storeVars, evalVars, lockVars, wireVars, poolVars>>

\* query_raw: write_all of the request; handle_connection answers it with
\* write_all of the header and the response p
WriteRequest(p) ==
    /\ query.pc = "idle"
    /\ Len(responses) < MaxQueries
    /\ stream' = stream \o Frame(p)
    /\ responses' = Append(responses, p)
    /\ query' = [Idle EXCEPT !.pc = "first_read"]
    /\ UNCHANGED <<returned, NoClientVars>>

\* query_raw: the first self.connection.read(&mut buf), which returns the k
\* bytes that have arrived, then u32::from_be_bytes(buf[..4]) and
\* Vec::from(&buf[4..total_bytes_read]), which panics when k is below 4
FirstRead(k) ==
    /\ query.pc = "first_read"
    /\ k \in 1..Min(BufLen, Len(stream))
    /\ LET buf == Buffered(SubSeq(stream, 1, k))
       IN  query' = IF k < 4
                    THEN [query EXCEPT !.pc = "panicked", !.total_bytes_read = k,
                             !.response_length = u32_from_be_bytes(SubSeq(buf, 1, 4))]
                    ELSE [pc |-> "loop", total_bytes_read |-> k,
                          response_length |-> u32_from_be_bytes(SubSeq(buf, 1, 4)),
                          response |-> SubSeq(buf, 5, k)]
    /\ stream' = SubSeq(stream, k + 1, Len(stream))
    /\ UNCHANGED <<responses, returned, NoClientVars>>

\* query_raw: a turn of `while (total_bytes_read as u32) < response_length`
LoopRead(k) ==
    /\ query.pc = "loop"
    /\ query.total_bytes_read < query.response_length
    /\ k \in 1..Min(BufLen, Len(stream))
    /\ query' = [query EXCEPT !.total_bytes_read = @ + k,
                              !.response = @ \o SubSeq(stream, 1, k)]
    /\ stream' = SubSeq(stream, k + 1, Len(stream))
    /\ UNCHANGED <<responses, returned, NoClientVars>>

\* query_raw: the loop is left and the bytes collected are returned
ReturnResponse ==
    /\ query.pc = "loop"
    /\ ~(query.total_bytes_read < query.response_length)
    /\ returned' = Append(returned, query.response)
    /\ query' = Idle
    /\ UNCHANGED <<stream, responses, NoClientVars>>

NextClient ==
    \/ \E p \in ResponsePayloads : WriteRequest(p)
    \/ \E k \in 1..BufLen : FirstRead(k)
    \/ \E k \in 1..BufLen : LoopRead(k)
    \/ ReturnResponse

SpecClient == InitClient /\ [][NextClient]_vars

\* C39: query_raw returns exactly the n payload bytes the header of the
\* response announces, for every length n and every way in which the stream
\* delivers the 4 + n bytes in chunks, responses longer than the read
\* buffer included, and it consumes no byte of a later response.
C39_QueryRawReturnsPayload ==
    /\ query.pc # "panicked"
    /\ \A i \in 1..Len(returned) : returned[i] = responses[i]
    /\ query.pc = "idle" => stream = <<>>


====
